---- MODULE Spec2Model ----
(***************************************************************************)
(* ynabctl: a command-line client for the YNAB REST API.                   *)
(*                                                                         *)
(* The model has two parts.                                                *)
(*   - The currency helpers of internal/client (AmountToMilliunits,        *)
(*     MilliunitsToAmount) on IEEE-754 binary64 values.  A binary64 value  *)
(*     is (-1)^neg * m * 2^e with m = 0 or 2^52 <= m < 2^53; m is held as  *)
(*     a little-endian sequence of 15-bit limbs because the mantissa does  *)
(*     not fit the model checker's integers.  SpecConv applies them.       *)
(*   - One invocation of the command line: PersistentPreRunE, the          *)
(*     command's RunE, the requests Client.doRequest sends and what it     *)
(*     makes of the transport's answers.  Spec runs it.                    *)
(***************************************************************************)
EXTENDS Integers, Sequences, FiniteSets, TLC

VARIABLES
    file,          \* the persisted config file, ~/.config/ynabctl/config.toml
    env,           \* the environment variables YNAB_TOKEN, YNAB_DEFAULT_BUDGET, YNAB_FORMAT
    cfg,           \* cmd.cfg, the *config.Config global (set: non-nil)
    persistent,    \* rootCmd.PersistentFlags(): --format and --budget as given
    outputFormat,  \* cmd.outputFormat, bound to --format
    budgetID,      \* cmd.budgetID, bound to --budget
    apiClient,     \* cmd.apiClient, the *client.Client global (set: non-nil)
    pc,            \* "ready" | "wait" (inside doRequest, request sent) | "done"
    cmd,           \* the command being run
    args,          \* its positional arguments
    flags,         \* its flags: the set that was given and every flag's value
    clock,         \* the reading of time.Now() the command took
    reqs,          \* the HTTP requests sent so far, in order
    resp,          \* the transport's last answer
    call,          \* the client operation in progress
    existing,      \* transactions update: the transaction fetched first
    out,           \* what RunE returned and what it handed to the formatter
    cv,            \* SpecConv: the conversion helpers' inputs and results
    rd             \* SpecRender: the formatter's input and the rows it wrote

vars == <<file, env, persistent, cfg, outputFormat, budgetID, apiClient, pc, cmd, args, flags,
          clock, reqs, resp, call, existing, out, cv, rd>>

cliVars == <<file, env, persistent, cfg, outputFormat, budgetID, apiClient, pc, cmd, args, flags,
             clock, reqs, resp, call, existing, out, rd>>

runVars == <<file, env, persistent, cfg, outputFormat, budgetID, apiClient, pc, cmd, args,
             flags, clock, reqs, resp, call, existing, out>>

(***************************************************************************)
(* Bounds of the model.                                                    *)
(***************************************************************************)
MaxAmount == 2100   \* conversion inputs: numerators -MaxAmount..MaxAmount
MaxList == 2        \* the renderer's input: slices of at most MaxList entries
MaxChanged == 1     \* transactions update: at most this many flags given

(***************************************************************************)
(* Natural numbers of any size, as little-endian sequences of limbs.       *)
(***************************************************************************)
Base == 2^15

RECURSIVE Norm(_)
Norm(x) ==
    IF x = <<>> THEN <<>>
    ELSE IF x[Len(x)] = 0 THEN Norm(SubSeq(x, 1, Len(x) - 1)) ELSE x

RECURSIVE FromInt(_)
FromInt(n) == IF n = 0 THEN <<>> ELSE <<n % Base>> \o FromInt(n \div Base)

RECURSIVE ToInt(_)
ToInt(x) == IF x = <<>> THEN 0 ELSE Head(x) + Base * ToInt(Tail(x))

RECURSIVE MulSmallC(_, _, _)
MulSmallC(x, c, carry) ==
    IF x = <<>> THEN (IF carry = 0 THEN <<>> ELSE <<carry>>)
    ELSE LET t == Head(x) * c + carry
         IN <<t % Base>> \o MulSmallC(Tail(x), c, t \div Base)

MulSmall(x, c) == Norm(MulSmallC(x, c, 0))

RECURSIVE DivSmallR(_, _)
DivSmallR(x, c) ==
    IF x = <<>> THEN [q |-> <<>>, r |-> 0]
    ELSE LET hi == DivSmallR(Tail(x), c)
             cur == hi.r * Base + Head(x)
         IN [q |-> <<cur \div c>> \o hi.q, r |-> cur % c]

DivSmall(x, c) == LET d == DivSmallR(x, c) IN [q |-> Norm(d.q), r |-> d.r]

RECURSIVE BitLenSmall(_)
BitLenSmall(n) == IF n = 0 THEN 0 ELSE 1 + BitLenSmall(n \div 2)

BitLen(x) == IF x = <<>> THEN 0 ELSE 15 * (Len(x) - 1) + BitLenSmall(x[Len(x)])

RECURSIVE AddOne(_)
AddOne(x) ==
    IF x = <<>> THEN <<1>>
    ELSE IF Head(x) + 1 < Base THEN <<Head(x) + 1>> \o Tail(x)
    ELSE <<0>> \o AddOne(Tail(x))

\* x shifted right by k bits; sticky tells whether a 1 was shifted out.
RECURSIVE ShrSticky(_, _, _)
ShrSticky(x, k, st) ==
    IF k = 0 THEN [q |-> x, sticky |-> st]
    ELSE LET s == IF k > 15 THEN 15 ELSE k
             d == DivSmall(x, 2^s)
         IN ShrSticky(d.q, k - s, st \/ d.r # 0)

RECURSIVE Shl(_, _)
Shl(x, k) == IF k = 0 THEN x ELSE Shl(MulSmall(x, 2), k - 1)

Abs(n) == IF n < 0 THEN -n ELSE n

(***************************************************************************)
(* float64 arithmetic: every operation is the exact result rounded to 53   *)
(* bits, to nearest, ties to even.                                         *)
(***************************************************************************)
F64Zero == [neg |-> FALSE, m |-> <<>>, e |-> 0]

\* The float64 nearest to x * 2^e (+ a little, if sticky), for x of 54 bits or more.
RoundF64(neg, x, e, sticky) ==
    LET k == BitLen(x) - 54
        sh == ShrSticky(x, k, sticky)
        h == DivSmall(sh.q, 2)
        odd == Head(h.q) % 2 = 1
        up == h.r = 1 /\ (sh.sticky \/ odd)
        m1 == IF up THEN AddOne(h.q) ELSE h.q
    IN IF BitLen(m1) = 54
       THEN [neg |-> neg, m |-> DivSmall(m1, 2).q, e |-> e + k + 2]
       ELSE [neg |-> neg, m |-> m1, e |-> e + k + 1]

\* strconv.ParseFloat of the decimal n/d (pflag's Float64Var): the nearest float64.
ParseFloat(n, d) ==
    IF n = 0 THEN F64Zero
    ELSE LET qr == DivSmallR(<<0, 0, 0, 0, 0>> \o FromInt(Abs(n)), d)
         IN RoundF64(n < 0, Norm(qr.q), -75, qr.r # 0)

\* float64(n) for an int64 n: exact below 2^53.
IntToF64(n) ==
    IF n = 0 THEN F64Zero
    ELSE RoundF64(n < 0, <<0, 0, 0, 0>> \o FromInt(Abs(n)), -60, FALSE)

\* x * c and x / c for a float64 x and a float64 c that is a small integer.
MulF64(x, c) ==
    IF x.m = <<>> THEN x
    ELSE RoundF64(x.neg, MulSmall(<<0>> \o x.m, c), x.e - 15, FALSE)

DivF64(x, c) ==
    IF x.m = <<>> THEN x
    ELSE LET qr == DivSmall(<<0, 0>> \o x.m, c)
         IN RoundF64(x.neg, qr.q, x.e - 30, qr.r # 0)

\* int64(x): Go's conversion drops the fraction (truncates toward zero).
TruncF64(x) ==
    LET mag == IF x.e >= 0 THEN ToInt(Shl(x.m, x.e))
               ELSE ToInt(ShrSticky(x.m, -x.e, FALSE).q)
    IN IF x.neg THEN -mag ELSE mag

\* x == y on float64.
EqF64(x, y) == (x.m = <<>> /\ y.m = <<>>) \/ x = y

MilliunitsToAmount(milliunits) == DivF64(IntToF64(milliunits), 1000)

AmountToMilliunits(amount) == TruncF64(MulF64(amount, 1000))

(***************************************************************************)
(* SpecConv: the two helpers applied to bounded inputs.  An amount is the  *)
(* float64 parsed from the decimal n/d; a milliunit value is the integer n.*)
(***************************************************************************)
Denominators == {100, 1000, 10000}

RdIdle == [format |-> "", type |-> "", data |-> <<>>, done |-> FALSE, rows |-> {}]

CvIdle == [kind |-> "none", n |-> 0, d |-> 1, step |-> 0,
           a |-> F64Zero, m |-> 0, a2 |-> F64Zero, m2 |-> 0]

CvAmountInput(n, d) == [CvIdle EXCEPT !.kind = "amount", !.n = n, !.d = d,
                                      !.a = ParseFloat(n, d)]

CvMilliInput(n) == [CvIdle EXCEPT !.kind = "milli", !.n = n, !.m = n]

ConvAmountToMilliunits ==
    /\ \/ /\ cv.kind = "amount" /\ cv.step = 0
          /\ cv' = [cv EXCEPT !.step = 1, !.m = AmountToMilliunits(cv.a)]
       \/ /\ cv.kind = "milli" /\ cv.step = 1
          /\ cv' = [cv EXCEPT !.step = 2, !.m2 = AmountToMilliunits(cv.a)]
    /\ UNCHANGED cliVars

ConvMilliunitsToAmount ==
    /\ \/ /\ cv.kind = "milli" /\ cv.step = 0
          /\ cv' = [cv EXCEPT !.step = 1, !.a = MilliunitsToAmount(cv.m)]
       \/ /\ cv.kind = "amount" /\ cv.step = 1
          /\ cv' = [cv EXCEPT !.step = 2, !.a2 = MilliunitsToAmount(cv.m)]
    /\ UNCHANGED cliVars

(***************************************************************************)
(* internal/client: the entities.  A JSON object is a function from its    *)
(* keys to their values; a Go struct is a function from its field names.   *)
(* Fld(go, json, kind, sub): the Go field, its json tag, the kind of its   *)
(* type and, for a nested struct, pointer or slice, the element type.      *)
(***************************************************************************)
Fld(go, json, kind, sub) == [go |-> go, json |-> json, kind |-> kind, sub |-> sub]

S(go, json) == Fld(go, json, "string", "")
I(go, json) == Fld(go, json, "int", "")
B(go, json) == Fld(go, json, "bool", "")
M(go, json) == Fld(go, json, "map", "")

UserFields ==
    <<S("ID", "id")>>

BudgetFields ==
    <<S("ID", "id"), S("Name", "name"),
        S("LastModifiedOn", "last_modified_on"), S("FirstMonth", "first_month"),
        S("LastMonth", "last_month"),
        Fld("DateFormat", "date_format", "ptr", "DateFormat"),
        Fld("CurrencyFormat", "currency_format", "ptr", "CurrencyFormat")>>

DateFormatFields ==
    <<S("Format", "format")>>

CurrencyFormatFields ==
    <<S("ISOCode", "iso_code"), S("ExampleFormat", "example_format"),
        I("DecimalDigits", "decimal_digits"), S("DecimalSeparator", "decimal_separator"),
        B("SymbolFirst", "symbol_first"), S("GroupSeparator", "group_separator"),
        S("CurrencySymbol", "currency_symbol"), B("DisplaySymbol", "display_symbol")>>

BudgetSettingsFields ==
    <<Fld("DateFormat", "date_format", "struct", "DateFormat"),
        Fld("CurrencyFormat", "currency_format", "struct", "CurrencyFormat")>>

AccountFields ==
    <<S("ID", "id"), S("Name", "name"), S("Type", "type"),
        B("OnBudget", "on_budget"), B("Closed", "closed"), S("Note", "note"),
        I("Balance", "balance"), I("ClearedBalance", "cleared_balance"),
        I("UnclearedBalance", "uncleared_balance"),
        S("TransferPayeeID", "transfer_payee_id"),
        B("DirectImportLinked", "direct_import_linked"),
        B("DirectImportInError", "direct_import_in_error"),
        S("LastReconciledAt", "last_reconciled_at"),
        I("DebtOriginalBalance", "debt_original_balance"),
        M("DebtInterestRates", "debt_interest_rates"),
        M("DebtMinimumPayments", "debt_minimum_payments"),
        M("DebtEscrowAmounts", "debt_escrow_amounts"), B("Deleted", "deleted")>>

CategoryGroupFields ==
    <<S("ID", "id"), S("Name", "name"), B("Hidden", "hidden"),
        B("Deleted", "deleted"), Fld("Categories", "categories", "list", "Category")>>

CategoryFields ==
    <<S("ID", "id"), S("CategoryGroupID", "category_group_id"),
        S("CategoryGroupName", "category_group_name"), S("Name", "name"),
        B("Hidden", "hidden"),
        S("OriginalCategoryGroupID", "original_category_group_id"), S("Note", "note"),
        I("Budgeted", "budgeted"), I("Activity", "activity"), I("Balance", "balance"),
        S("GoalType", "goal_type"), I("GoalDay", "goal_day"),
        I("GoalCadence", "goal_cadence"),
        I("GoalCadenceFrequency", "goal_cadence_frequency"),
        S("GoalCreationMonth", "goal_creation_month"), I("GoalTarget", "goal_target"),
        S("GoalTargetMonth", "goal_target_month"),
        I("GoalPercentageComplete", "goal_percentage_complete"),
        I("GoalMonthsToBudget", "goal_months_to_budget"),
        I("GoalUnderFunded", "goal_under_funded"),
        I("GoalOverallFunded", "goal_overall_funded"),
        I("GoalOverallLeft", "goal_overall_left"), B("Deleted", "deleted")>>

PayeeFields ==
    <<S("ID", "id"), S("Name", "name"),
        S("TransferAccountID", "transfer_account_id"), B("Deleted", "deleted")>>

TransactionFields ==
    <<S("ID", "id"), S("Date", "date"), I("Amount", "amount"),
        S("Memo", "memo"), S("Cleared", "cleared"), B("Approved", "approved"),
        S("FlagColor", "flag_color"), S("FlagName", "flag_name"),
        S("AccountID", "account_id"), S("AccountName", "account_name"),
        S("PayeeID", "payee_id"), S("PayeeName", "payee_name"),
        S("CategoryID", "category_id"), S("CategoryName", "category_name"),
        S("TransferAccountID", "transfer_account_id"),
        S("TransferTransactionID", "transfer_transaction_id"),
        S("MatchedTransactionID", "matched_transaction_id"), S("ImportID", "import_id"),
        S("ImportPayeeName", "import_payee_name"),
        S("ImportPayeeNameOriginal", "import_payee_name_original"),
        S("DebtTransactionType", "debt_transaction_type"), B("Deleted", "deleted"),
        Fld("Subtransactions", "subtransactions", "list", "Subtransaction")>>

SubtransactionFields ==
    <<S("ID", "id"), S("TransactionID", "transaction_id"),
        I("Amount", "amount"), S("Memo", "memo"), S("PayeeID", "payee_id"),
        S("PayeeName", "payee_name"), S("CategoryID", "category_id"),
        S("CategoryName", "category_name"),
        S("TransferAccountID", "transfer_account_id"),
        S("TransferTransactionID", "transfer_transaction_id"), B("Deleted", "deleted")>>

ScheduledTransactionFields ==
    <<S("ID", "id"), S("DateFirst", "date_first"),
        S("DateNext", "date_next"), S("Frequency", "frequency"), I("Amount", "amount"),
        S("Memo", "memo"), S("FlagColor", "flag_color"), S("FlagName", "flag_name"),
        S("AccountID", "account_id"), S("AccountName", "account_name"),
        S("PayeeID", "payee_id"), S("PayeeName", "payee_name"),
        S("CategoryID", "category_id"), S("CategoryName", "category_name"),
        S("TransferAccountID", "transfer_account_id"), B("Deleted", "deleted"),
        Fld("Subtransactions", "subtransactions", "list", "ScheduledSubtransaction")>>

ScheduledSubtransactionFields ==
    <<S("ID", "id"),
        S("ScheduledTransactionID", "scheduled_transaction_id"), I("Amount", "amount"),
        S("Memo", "memo"), S("PayeeID", "payee_id"), S("CategoryID", "category_id"),
        S("TransferAccountID", "transfer_account_id"), B("Deleted", "deleted")>>

MonthFields ==
    <<S("Month", "month"), S("Note", "note"), I("Income", "income"),
        I("Budgeted", "budgeted"), I("Activity", "activity"),
        I("ToBeBudgeted", "to_be_budgeted"), I("AgeOfMoney", "age_of_money"),
        B("Deleted", "deleted"), Fld("Categories", "categories", "list", "Category")>>

Fields(type) ==
    CASE type = "User" -> UserFields
      [] type = "Budget" -> BudgetFields
      [] type = "DateFormat" -> DateFormatFields
      [] type = "CurrencyFormat" -> CurrencyFormatFields
      [] type = "BudgetSettings" -> BudgetSettingsFields
      [] type = "Account" -> AccountFields
      [] type = "CategoryGroup" -> CategoryGroupFields
      [] type = "Category" -> CategoryFields
      [] type = "Payee" -> PayeeFields
      [] type = "Transaction" -> TransactionFields
      [] type = "Subtransaction" -> SubtransactionFields
      [] type = "ScheduledTransaction" -> ScheduledTransactionFields
      [] type = "ScheduledSubtransaction" -> ScheduledSubtransactionFields
      [] type = "Month" -> MonthFields

EmptyObject == <<>>

FieldOf(type, go) == CHOOSE f \in {Fields(type)[i] : i \in 1..Len(Fields(type))} : f.go = go

GoFields(type) == {Fields(type)[i].go : i \in 1..Len(Fields(type))}

\* encoding/json filling a struct of the given type from a JSON object: a key the
\* struct does not name is skipped, a field the object does not name keeps its
\* zero value.
RECURSIVE DecodeObj(_, _)
DecodeObj(type, o) ==
    [go \in GoFields(type) |->
        LET f == FieldOf(type, go)
            has == f.json \in DOMAIN o
        IN CASE f.kind = "string" -> IF has THEN o[f.json] ELSE ""
             [] f.kind = "int" -> IF has THEN o[f.json] ELSE 0
             [] f.kind = "bool" -> IF has THEN o[f.json] ELSE FALSE
             [] f.kind = "map" -> IF has THEN o[f.json] ELSE EmptyObject
             [] f.kind = "struct" ->
                    DecodeObj(f.sub, IF has THEN o[f.json] ELSE EmptyObject)
             [] f.kind = "ptr" ->
                    IF has THEN [nil |-> FALSE, v |-> DecodeObj(f.sub, o[f.json])]
                    ELSE [nil |-> TRUE]
             [] f.kind = "list" ->
                    IF has THEN [i \in 1..Len(o[f.json]) |-> DecodeObj(f.sub, o[f.json][i])]
                    ELSE <<>>]

\* A variant of DecodeList that fills the slice back to front.
DecodeListReversed(type, items) ==
    [i \in 1..Len(items) |-> DecodeObj(type, items[Len(items) + 1 - i])]

\* A JSON array filling a slice of the given type.
DecodeList(type, items) == [i \in 1..Len(items) |-> DecodeObj(type, items[i])]

(***************************************************************************)
(* internal/client: errors, the transport's answers, Client.doRequest.     *)
(***************************************************************************)
baseURL == "https://api.ynab.com/v1"

NilClient == [set |-> FALSE, token |-> "", baseURL |-> ""]

New(token) == [set |-> TRUE, token |-> token, baseURL |-> baseURL]

\* A response body as encoding/json sees it: wf tells whether it is well-formed
\* JSON with an object at the top; error and data are its two top-level members.
\* kind: "absent" | "null" | "object" | "badtype" (a value of another JSON type).
NoErrorMember == [kind |-> "absent", id |-> "", name |-> "", detail |-> ""]

NoValueMember == [kind |-> "absent", items |-> <<>>, obj |-> EmptyObject]

NoDataMember == [kind |-> "absent", key |-> "", val |-> NoValueMember]

EmptyBody == [wf |-> TRUE, error |-> NoErrorMember, data |-> NoDataMember]

NoAnswer == [got |-> FALSE, neterr |-> FALSE, status |-> 0, body |-> EmptyBody]

\* The error values: none (nil), config and usage (the command layer's), transport
\* ("failed to execute request"), api (*client.Error), http ("API error: <body>
\* (status <n>)") and decode ("failed to parse response").
MkErr(kind, name, detail, status, body) ==
    [kind |-> kind, name |-> name, detail |-> detail, status |-> status, body |-> body]

NoErr == MkErr("none", "", "", 0, EmptyBody)

NoRequestBody == [present |-> FALSE, root |-> "", fields |-> EmptyObject]

RequestBody(root, fields) == [present |-> TRUE, root |-> root, fields |-> fields]

\* Variant: only a request without a body is given the Authorization header.
doRequestSendAuthorizesReadsOnly(c, method, path, body) ==
    [method |-> method, url |-> c.baseURL \o path,
     authorization |-> IF body.present THEN "" ELSE "Bearer " \o c.token,
     contentType |-> "application/json", body |-> body]

\* doRequest up to httpClient.Do: the request it builds.
doRequestSend(c, method, path, body) ==
    [method |-> method, url |-> c.baseURL \o path,
     authorization |-> "Bearer " \o c.token, contentType |-> "application/json",
     body |-> body]

\* json.Unmarshal(respBody, &errResp): whether it succeeds, and errResp.Error.
UnmarshalErrorResponse(body) ==
    [ok |-> body.wf /\ body.error.kind # "badtype",
     Error |-> IF body.wf /\ body.error.kind = "object"
               THEN [nil |-> FALSE, ID |-> body.error.id, Name |-> body.error.name,
                     Detail |-> body.error.detail]
               ELSE [nil |-> TRUE, ID |-> "", Name |-> "", Detail |-> ""]]

\* A variant of doRequestReceive whose test is status > 400.
doRequestFailsAt400Only(answer) ==
    IF answer.neterr THEN [body |-> EmptyBody, err |-> MkErr("transport", "", "", 0, EmptyBody)]
    ELSE IF answer.status > 400
    THEN LET errResp == UnmarshalErrorResponse(answer.body)
         IN IF errResp.ok /\ ~errResp.Error.nil
            THEN [body |-> EmptyBody,
                  err |-> MkErr("api", errResp.Error.Name, errResp.Error.Detail, 0, EmptyBody)]
            ELSE [body |-> EmptyBody,
                  err |-> MkErr("http", "", "", answer.status, answer.body)]
    ELSE [body |-> answer.body, err |-> NoErr]

\* A variant of doRequestReceive whose API error has name and detail exchanged.
doRequestSwapsNameAndDetail(answer) ==
    IF answer.neterr THEN [body |-> EmptyBody, err |-> MkErr("transport", "", "", 0, EmptyBody)]
    ELSE IF answer.status >= 400
    THEN LET errResp == UnmarshalErrorResponse(answer.body)
         IN IF errResp.ok /\ ~errResp.Error.nil
            THEN [body |-> EmptyBody,
                  err |-> MkErr("api", errResp.Error.Detail, errResp.Error.Name, 0, EmptyBody)]
            ELSE [body |-> EmptyBody,
                  err |-> MkErr("http", "", "", answer.status, answer.body)]
    ELSE [body |-> answer.body, err |-> NoErr]

\* doRequest from httpClient.Do on: what it returns for the transport's answer.
doRequestReceive(answer) ==
    IF answer.neterr THEN [body |-> EmptyBody, err |-> MkErr("transport", "", "", 0, EmptyBody)]
    ELSE IF answer.status >= 400
    THEN LET errResp == UnmarshalErrorResponse(answer.body)
         IN IF errResp.ok /\ ~errResp.Error.nil
            THEN [body |-> EmptyBody,
                  err |-> MkErr("api", errResp.Error.Name, errResp.Error.Detail, 0, EmptyBody)]
            ELSE [body |-> EmptyBody,
                  err |-> MkErr("http", "", "", answer.status, answer.body)]
    ELSE [body |-> answer.body, err |-> NoErr]

(***************************************************************************)
(* internal/client: the operations.  Each is the same three steps: build   *)
(* the path, doRequest, json.Unmarshal into <X>Response and return          *)
(* resp.Data.<member>.  Ops gives each one's method, the key of the member  *)
(* under "data", whether the member is a slice, and its element type.       *)
(***************************************************************************)
Op(method, key, list, type) == [method |-> method, key |-> key, list |-> list, type |-> type]

Ops == [
    GetUser |-> Op("GET", "user", FALSE, "User"),
    GetBudgets |-> Op("GET", "budgets", TRUE, "Budget"),
    GetBudget |-> Op("GET", "budget", FALSE, "Budget"),
    GetBudgetSettings |-> Op("GET", "settings", FALSE, "BudgetSettings"),
    GetAccounts |-> Op("GET", "accounts", TRUE, "Account"),
    GetAccount |-> Op("GET", "account", FALSE, "Account"),
    GetCategories |-> Op("GET", "category_groups", TRUE, "CategoryGroup"),
    GetCategory |-> Op("GET", "category", FALSE, "Category"),
    UpdateCategory |-> Op("PATCH", "category", FALSE, "Category"),
    GetPayees |-> Op("GET", "payees", TRUE, "Payee"),
    GetPayee |-> Op("GET", "payee", FALSE, "Payee"),
    GetTransaction |-> Op("GET", "transaction", FALSE, "Transaction"),
    UpdateTransaction |-> Op("PUT", "transaction", FALSE, "Transaction"),
    DeleteTransaction |-> Op("DELETE", "transaction", FALSE, "Transaction"),
    GetScheduledTransactions |->
        Op("GET", "scheduled_transactions", TRUE, "ScheduledTransaction"),
    GetScheduledTransaction |->
        Op("GET", "scheduled_transaction", FALSE, "ScheduledTransaction"),
    DeleteScheduledTransaction |->
        Op("DELETE", "scheduled_transaction", FALSE, "ScheduledTransaction"),
    GetMonths |-> Op("GET", "months", TRUE, "Month"),
    GetMonth |-> Op("GET", "month", FALSE, "Month"),
    CreateAccount |-> Op("POST", "account", FALSE, "Account"),
    UpdatePayee |-> Op("PATCH", "payee", FALSE, "Payee"),
    GetTransactions |-> Op("GET", "transactions", TRUE, "Transaction"),
    GetTransactionsByAccount |-> Op("GET", "transactions", TRUE, "Transaction"),
    GetTransactionsByCategory |-> Op("GET", "transactions", TRUE, "Transaction"),
    GetTransactionsByPayee |-> Op("GET", "transactions", TRUE, "Transaction"),
    CreateTransaction |-> Op("POST", "transaction", FALSE, "Transaction"),
    CreateScheduledTransaction |->
        Op("POST", "scheduled_transaction", FALSE, "ScheduledTransaction"),
    UpdateScheduledTransaction |->
        Op("PUT", "scheduled_transaction", FALSE, "ScheduledTransaction")
]

\* url.Values.Encode of GetTransactions' parameters, after the "?": the keys
\* that were set, sorted.
Encode(since, type) ==
    IF since # "" /\ type # "" THEN "since_date=" \o since \o "&type=" \o type
    ELSE IF since # "" THEN "since_date=" \o since
    ELSE "type=" \o type

\* if sinceDate != "" { path += "?since_date=" + sinceDate }
SinceDate(since) == IF since # "" THEN "?since_date=" \o since ELSE ""

\* fmt.Sprintf of the operation's path; a and b are its parameters after the budget.
Path(op, budget, a, b) ==
    CASE op = "GetUser" -> "/user"
      [] op = "GetBudgets" -> "/budgets"
      [] op = "GetBudget" -> "/budgets/" \o budget
      [] op = "GetBudgetSettings" -> "/budgets/" \o budget \o "/settings"
      [] op = "GetAccounts" -> "/budgets/" \o budget \o "/accounts"
      [] op = "GetAccount" -> "/budgets/" \o budget \o "/accounts/" \o a
      [] op = "GetCategories" -> "/budgets/" \o budget \o "/categories"
      [] op = "GetCategory" -> "/budgets/" \o budget \o "/categories/" \o a
      [] op = "UpdateCategory" ->
             "/budgets/" \o budget \o "/months/" \o b \o "/categories/" \o a
      [] op = "GetPayees" -> "/budgets/" \o budget \o "/payees"
      [] op = "GetPayee" -> "/budgets/" \o budget \o "/payees/" \o a
      [] op \in {"GetTransaction", "UpdateTransaction", "DeleteTransaction"} ->
             "/budgets/" \o budget \o "/transactions/" \o a
      [] op = "GetScheduledTransactions" -> "/budgets/" \o budget \o "/scheduled_transactions"
      [] op \in {"GetScheduledTransaction", "DeleteScheduledTransaction"} ->
             "/budgets/" \o budget \o "/scheduled_transactions/" \o a
      [] op = "GetMonths" -> "/budgets/" \o budget \o "/months"
      [] op = "GetMonth" -> "/budgets/" \o budget \o "/months/" \o a
      [] op = "CreateAccount" -> "/budgets/" \o budget \o "/accounts"
      [] op = "UpdatePayee" -> "/budgets/" \o budget \o "/payees/" \o a
      [] op = "GetTransactions" ->
             "/budgets/" \o budget \o "/transactions"
             \o (IF a = "" /\ b = "" THEN "" ELSE "?" \o Encode(a, b))
      [] op = "GetTransactionsByAccount" ->
             "/budgets/" \o budget \o "/accounts/" \o a \o "/transactions" \o SinceDate(b)
      [] op = "GetTransactionsByCategory" ->
             "/budgets/" \o budget \o "/categories/" \o a \o "/transactions" \o SinceDate(b)
      [] op = "GetTransactionsByPayee" ->
             "/budgets/" \o budget \o "/payees/" \o a \o "/transactions" \o SinceDate(b)
      [] op = "CreateTransaction" -> "/budgets/" \o budget \o "/transactions"
      [] op = "CreateScheduledTransaction" ->
             "/budgets/" \o budget \o "/scheduled_transactions"
      [] op = "UpdateScheduledTransaction" ->
             "/budgets/" \o budget \o "/scheduled_transactions/" \o a

\* What an operation returns: nothing (nil), a slice or one entity.
NoValue == [kind |-> "none", list |-> <<>>, one |-> EmptyObject]

ListValue(l) == [kind |-> "list", list |-> l, one |-> EmptyObject]

OneValue(v) == [kind |-> "one", list |-> <<>>, one |-> v]

ParseError == MkErr("decode", "", "", 0, EmptyBody)

\* json.Unmarshal(body, &resp) and resp.Data.<member>, for the operation's
\* response type.
Unmarshal(body, op) ==
    LET o == Ops[op]
        zero == IF o.list THEN ListValue(<<>>) ELSE OneValue(DecodeObj(o.type, EmptyObject))
        d == body.data
    IN IF ~body.wf \/ d.kind = "badtype" THEN [err |-> ParseError, value |-> NoValue]
       ELSE IF d.kind \in {"absent", "null"} THEN [err |-> NoErr, value |-> zero]
       ELSE IF d.key # o.key \/ d.val.kind = "null" THEN [err |-> NoErr, value |-> zero]
       ELSE IF o.list /\ d.val.kind = "array"
       THEN [err |-> NoErr, value |-> ListValue(DecodeList(o.type, d.val.items))]
       ELSE IF ~o.list /\ d.val.kind = "object"
       THEN [err |-> NoErr, value |-> OneValue(DecodeObj(o.type, d.val.obj))]
       ELSE [err |-> ParseError, value |-> NoValue]

\* The operation from doRequest's return on.
ClientReturn(op, answer) ==
    LET r == doRequestReceive(answer)
    IN IF r.err.kind # "none" THEN [err |-> r.err, value |-> NoValue]
       ELSE Unmarshal(r.body, op)

(***************************************************************************)
(* cmd: the root command's globals, PersistentPreRunE and its helpers.     *)
(* A command is named by its parent and its own name.                      *)
(***************************************************************************)
Cmd(parent, name) == [parent |-> parent, name |-> name]

NoCmd == Cmd("", "")

NilCfg == [set |-> FALSE, Token |-> "", DefaultBudget |-> "", Format |-> ""]

ConfigErr == MkErr("config", "", "", 0, EmptyBody)

(***************************************************************************)
(* internal/config: the persisted file and the environment.  A file is     *)
(* missing, malformed (not TOML) or ok; an ok file holds the keys in keys. *)
(* viper reads a key from the environment when the variable is set and not *)
(* empty, else from the file when the file has the key, else its default.  *)
(***************************************************************************)
ConfigKeys == {"token", "default_budget", "format"}

NoFile == [state |-> "missing", keys |-> {}, token |-> "", default_budget |-> "",
           format |-> ""]

MalformedFile == [NoFile EXCEPT !.state = "malformed"]

\* A file holding the keys whose value is not empty.
WrittenFile(token, budget, format) ==
    [state |-> "ok",
     keys |-> {k \in ConfigKeys : [token |-> token, default_budget |-> budget,
                                   format |-> format][k] # ""},
     token |-> token, default_budget |-> budget, format |-> format]

NoEnv == [token |-> "", default_budget |-> "", format |-> ""]

\* v.SetDefault("format", "json")
Default(key) == IF key = "format" THEN "json" ELSE ""

\* Variant: the file wins over the environment.
GetPrefersFile(f, e, key) ==
    IF f.state = "ok" /\ key \in f.keys THEN f[key]
    ELSE IF e[key] # "" THEN e[key]
    ELSE Default(key)

Get(f, e, key) ==
    IF e[key] # "" THEN e[key]
    ELSE IF f.state = "ok" /\ key \in f.keys THEN f[key]
    ELSE Default(key)

\* "error reading config file: ..."
LoadErr == MkErr("config", "", "error reading config file", 0, EmptyBody)

Load(f, e) ==
    IF f.state = "malformed" THEN [err |-> LoadErr, cfg |-> NilCfg]
    ELSE [err |-> NoErr,
          cfg |-> [set |-> TRUE, Token |-> Get(f, e, "token"),
                   DefaultBudget |-> Get(f, e, "default_budget"),
                   Format |-> Get(f, e, "format")]]

\* Save writes the three keys, whatever the file held.
Save(c) ==
    [state |-> "ok", keys |-> ConfigKeys, token |-> c.Token,
     default_budget |-> c.DefaultBudget, format |-> c.Format]

\* SetToken, SetDefaultBudget, SetFormat: the file they leave.  A Load error
\* is dropped and an empty Config takes the loaded one's place.
SetField(f, e, field, value) ==
    LET ld == Load(f, e)
        c == IF ld.err.kind # "none" THEN [NilCfg EXCEPT !.set = TRUE] ELSE ld.cfg
    IN Save([c EXCEPT ![field] = value])

UsageErr == MkErr("usage", "", "", 0, EmptyBody)

PersistentFlags(format, budget) == [format |-> format, budget |-> budget]

\* Variant: no command needs the token.
requiresAuthNever(c) == FALSE

requiresAuth(c) ==
    IF c.name = "show" /\ c.parent = "config" THEN FALSE
    ELSE IF c.name \in {"set-token", "set-default-budget"} THEN FALSE
    ELSE TRUE

\* Variant: no command returns early, every one is set up.
PersistentPreRunEAlwaysSetsUp(c, formatFlag, budgetFlag) ==
    LET skip == [err |-> NoErr, cfg |-> cfg, outputFormat |-> formatFlag,
                 budgetID |-> budgetFlag, apiClient |-> apiClient,
                 persistent |-> PersistentFlags(formatFlag, budgetFlag)]
        ld == Load(file, env)
        c1 == ld.cfg
        f1 == IF formatFlag = "" THEN c1.Format ELSE formatFlag
        f2 == IF f1 = "" THEN "json" ELSE f1
        b1 == IF budgetFlag = "" THEN c1.DefaultBudget ELSE budgetFlag
        set == [skip EXCEPT !.cfg = c1, !.outputFormat = f2, !.budgetID = b1]
    IN IF ld.err.kind # "none" THEN [skip EXCEPT !.err = ld.err]
       ELSE IF requiresAuth(c)
       THEN IF c1.Token = "" THEN [set EXCEPT !.err = ConfigErr]
            ELSE [set EXCEPT !.apiClient = New(c1.Token)]
       ELSE set

\* The globals after PersistentPreRunE and the error it returns; formatFlag and
\* budgetFlag are what --format and --budget left in outputFormat and budgetID.
PersistentPreRunE(c, formatFlag, budgetFlag) ==
    LET skip == [err |-> NoErr, cfg |-> cfg, outputFormat |-> formatFlag,
                 budgetID |-> budgetFlag, apiClient |-> apiClient,
                 persistent |-> PersistentFlags(formatFlag, budgetFlag)]
        ld == Load(file, env)
        c1 == ld.cfg
        f1 == IF formatFlag = "" THEN c1.Format ELSE formatFlag
        f2 == IF f1 = "" THEN "json" ELSE f1
        b1 == IF budgetFlag = "" THEN c1.DefaultBudget ELSE budgetFlag
        set == [skip EXCEPT !.cfg = c1, !.outputFormat = f2, !.budgetID = b1]
    IN IF c.name \in {"version", "help", "ai"} THEN skip
       ELSE IF c.parent = "config" THEN skip
       ELSE IF ld.err.kind # "none" THEN [skip EXCEPT !.err = ld.err]
       ELSE IF requiresAuth(c)
       THEN IF c1.Token = "" THEN [set EXCEPT !.err = ConfigErr]
            ELSE [set EXCEPT !.apiClient = New(c1.Token)]
       ELSE set

\* Variant: the configured default wins over --budget.
getBudgetIDPrefersDefault(g) ==
    IF g.cfg.set /\ g.cfg.DefaultBudget # ""
    THEN [id |-> g.cfg.DefaultBudget, err |-> NoErr]
    ELSE IF g.budgetID # "" THEN [id |-> g.budgetID, err |-> NoErr]
    ELSE [id |-> "", err |-> UsageErr]

getBudgetID(g) ==
    IF g.budgetID # "" THEN [id |-> g.budgetID, err |-> NoErr]
    ELSE IF g.cfg.set /\ g.cfg.DefaultBudget # ""
    THEN [id |-> g.cfg.DefaultBudget, err |-> NoErr]
    ELSE [id |-> "", err |-> UsageErr]

getOutputFormat(g) == IF g.outputFormat # "" THEN g.outputFormat ELSE "json"

(***************************************************************************)
(* time: the clock's reading and Time.Format.  A layout is the sequence of *)
(* its chunks; "2006" stands for the year, "01" for the month and "02" for *)
(* the day of the month, both zero-padded, any other chunk for itself.     *)
(***************************************************************************)
ZeroTime == [year |-> 1, month |-> 1, day |-> 1]

Times == [year : {2026}, month : 1..12, day : {1, 15}]

Pad2(n) == IF n < 10 THEN "0" \o ToString(n) ELSE ToString(n)

FormatChunk(chunk, t) ==
    CASE chunk = "2006" -> ToString(t.year)
      [] chunk = "01" -> Pad2(t.month)
      [] chunk = "02" -> Pad2(t.day)
      [] OTHER -> chunk

RECURSIVE Format(_, _)
Format(layout, t) ==
    IF layout = <<>> THEN ""
    ELSE FormatChunk(Head(layout), t) \o Format(Tail(layout), t)

\* time.Date(year, month, 1, 0, 0, 0, 0, time.UTC)
FirstOfMonth(t) == [year |-> t.year, month |-> t.month, day |-> 1]

(***************************************************************************)
(* cmd: what a command's RunE does up to its first request.  g are the     *)
(* globals PersistentPreRunE left, a the arguments, fl the flags, now the  *)
(* clock.  The result: the error returned, or the operation called and the *)
(* request it sends, and whether time.Now() was read.                      *)
(***************************************************************************)
NoRequest == [method |-> "", url |-> "", authorization |-> "", contentType |-> "",
              body |-> NoRequestBody]

Returns(err) == [err |-> err, op |-> "", req |-> NoRequest, readClock |-> FALSE]

Calls(g, op, path, body, readClock) ==
    [err |-> NoErr, op |-> op,
     req |-> doRequestSend(g.apiClient, Ops[op].method, path, body),
     readClock |-> readClock]

Arg(a, i) == IF Len(a) >= i THEN a[i] ELSE ""

\* The commands whose RunE is: getBudgetID, one operation on the budget and at
\* most one argument, Print.
\* Variant: transactions get calls the operation of transactions delete.
SimpleOpGetDeletes(c) ==
    CASE c = Cmd("accounts", "list") -> "GetAccounts"
      [] c = Cmd("accounts", "get") -> "GetAccount"
      [] c = Cmd("categories", "list") -> "GetCategories"
      [] c = Cmd("categories", "get") -> "GetCategory"
      [] c = Cmd("payees", "list") -> "GetPayees"
      [] c = Cmd("payees", "get") -> "GetPayee"
      [] c = Cmd("transactions", "get") -> "DeleteTransaction"
      [] c = Cmd("transactions", "delete") -> "DeleteTransaction"
      [] c = Cmd("scheduled", "list") -> "GetScheduledTransactions"
      [] c = Cmd("scheduled", "get") -> "GetScheduledTransaction"
      [] c = Cmd("scheduled", "delete") -> "DeleteScheduledTransaction"
      [] c = Cmd("months", "list") -> "GetMonths"

SimpleOp(c) ==
    CASE c = Cmd("accounts", "list") -> "GetAccounts"
      [] c = Cmd("accounts", "get") -> "GetAccount"
      [] c = Cmd("categories", "list") -> "GetCategories"
      [] c = Cmd("categories", "get") -> "GetCategory"
      [] c = Cmd("payees", "list") -> "GetPayees"
      [] c = Cmd("payees", "get") -> "GetPayee"
      [] c = Cmd("transactions", "get") -> "GetTransaction"
      [] c = Cmd("transactions", "delete") -> "DeleteTransaction"
      [] c = Cmd("scheduled", "list") -> "GetScheduledTransactions"
      [] c = Cmd("scheduled", "get") -> "GetScheduledTransaction"
      [] c = Cmd("scheduled", "delete") -> "DeleteScheduledTransaction"
      [] c = Cmd("months", "list") -> "GetMonths"

SimpleCmds == {Cmd("accounts", "list"), Cmd("accounts", "get"),
               Cmd("categories", "list"), Cmd("categories", "get"),
               Cmd("payees", "list"), Cmd("payees", "get"),
               Cmd("transactions", "get"), Cmd("transactions", "delete"),
               Cmd("scheduled", "list"), Cmd("scheduled", "get"),
               Cmd("scheduled", "delete"), Cmd("months", "list")}

simpleRunE(c, g, a) ==
    LET b == getBudgetID(g)
    IN IF b.err.kind # "none" THEN Returns(b.err)
       ELSE Calls(g, SimpleOp(c), Path(SimpleOp(c), b.id, Arg(a, 1), ""), NoRequestBody, FALSE)

userRunE(g) == Calls(g, "GetUser", Path("GetUser", "", "", ""), NoRequestBody, FALSE)

budgetsListRunE(g) ==
    Calls(g, "GetBudgets", Path("GetBudgets", "", "", ""), NoRequestBody, FALSE)

\* budgets get and budgets settings: the argument, when given, is the budget.
budgetsRunE(op, g, a) ==
    IF Len(a) > 0 THEN Calls(g, op, Path(op, a[1], "", ""), NoRequestBody, FALSE)
    ELSE LET b == getBudgetID(g)
         IN IF b.err.kind # "none" THEN Returns(b.err)
            ELSE Calls(g, op, Path(op, b.id, "", ""), NoRequestBody, FALSE)

LayoutDate == <<"2006", "-", "01", "-", "02">>

\* A variant of monthsGetRunE that passes the month on as given.
monthsGetLiteralCurrent(g, a, now) ==
    LET b == getBudgetID(g)
        month == IF Len(a) > 0 THEN a[1] ELSE "current"
    IN IF b.err.kind # "none" THEN Returns(b.err)
       ELSE Calls(g, "GetMonth", Path("GetMonth", b.id, month, ""), NoRequestBody,
                  month = "current")

monthsGetRunE(g, a, now) ==
    LET b == getBudgetID(g)
        month0 == IF Len(a) > 0 THEN a[1] ELSE "current"
        month == IF month0 = "current" THEN Format(LayoutDate, FirstOfMonth(now))
                 ELSE month0
    IN IF b.err.kind # "none" THEN Returns(b.err)
       ELSE Calls(g, "GetMonth", Path("GetMonth", b.id, month, ""), NoRequestBody,
                  month0 = "current")

\* The layout categories update passes to Format: "2006-01-01".
LayoutCategoryMonth == <<"2006", "-", "01", "-", "01">>

categoriesUpdateRunE(g, a, fl, now) ==
    LET b == getBudgetID(g)
        month0 == fl.val["month"]
        month == IF month0 = "" \/ month0 = "current"
                 THEN Format(LayoutCategoryMonth, now) ELSE month0
        budgeted == AmountToMilliunits(ParseFloat(fl.val["budgeted"].n, fl.val["budgeted"].d))
    IN IF b.err.kind # "none" THEN Returns(b.err)
       ELSE Calls(g, "UpdateCategory", Path("UpdateCategory", b.id, a[1], month),
                  RequestBody("category", "budgeted" :> budgeted),
                  month0 = "" \/ month0 = "current")

\* Variant: the replace is sent at once, with an empty payload, and nothing is
\* fetched.
transactionsUpdateRunEReplacesUnread(g, a) ==
    LET b == getBudgetID(g)
    IN IF b.err.kind # "none" THEN Returns(b.err)
       ELSE Calls(g, "UpdateTransaction", Path("UpdateTransaction", b.id, a[1], ""),
                  RequestBody("transaction", EmptyObject), FALSE)

transactionsUpdateRunE(g, a) ==
    LET b == getBudgetID(g)
    IN IF b.err.kind # "none" THEN Returns(b.err)
       ELSE Calls(g, "GetTransaction", Path("GetTransaction", b.id, a[1], ""),
                  NoRequestBody, FALSE)

(***************************************************************************)
(* transactions update: the payload and its JSON encoding.                 *)
(***************************************************************************)
Tag(go, json, kind, omitempty) ==
    [go |-> go, json |-> json, kind |-> kind, omitempty |-> omitempty]

SaveTransactionTags == <<
    Tag("AccountID", "account_id", "string", FALSE),
    Tag("Date", "date", "string", FALSE),
    Tag("Amount", "amount", "int", FALSE),
    Tag("PayeeID", "payee_id", "string", TRUE),
    Tag("PayeeName", "payee_name", "string", TRUE),
    Tag("CategoryID", "category_id", "string", TRUE),
    Tag("Memo", "memo", "string", TRUE),
    Tag("Cleared", "cleared", "string", TRUE),
    Tag("Approved", "approved", "bool", TRUE),
    Tag("FlagColor", "flag_color", "string", TRUE),
    Tag("ImportID", "import_id", "string", TRUE)>>

\* encoding/json's "empty value" of omitempty: "", 0, false.
IsEmptyValue(kind, v) ==
    CASE kind = "string" -> v = ""
      [] kind = "int" -> v = 0
      [] kind = "bool" -> v = FALSE

\* json.Marshal of a struct with the given tags: the keys written and their values.
Marshal(tags, v) ==
    LET kept == {i \in 1..Len(tags) :
                    ~(tags[i].omitempty /\ IsEmptyValue(tags[i].kind, v[tags[i].go]))}
    IN [k \in {tags[i].json : i \in kept} |->
           v[tags[CHOOSE i \in kept : tags[i].json = k].go]]

Changed(fl, name) == name \in fl.changed

\* The client.SaveTransaction that transactions update builds from the fetched
\* transaction and the flags.
MergeTransaction(ex, fl) ==
    [AccountID |-> IF Changed(fl, "account") THEN fl.val["account"] ELSE ex.AccountID,
     Date |-> IF Changed(fl, "date") THEN fl.val["date"] ELSE ex.Date,
     Amount |-> IF Changed(fl, "amount")
                THEN AmountToMilliunits(ParseFloat(fl.val["amount"].n, fl.val["amount"].d))
                ELSE ex.Amount,
     PayeeID |-> IF Changed(fl, "payee-id") THEN fl.val["payee-id"] ELSE ex.PayeeID,
     PayeeName |-> IF Changed(fl, "payee-name") THEN fl.val["payee-name"] ELSE "",
     CategoryID |-> IF Changed(fl, "category") THEN fl.val["category"] ELSE ex.CategoryID,
     Memo |-> IF Changed(fl, "memo") THEN fl.val["memo"] ELSE ex.Memo,
     Cleared |-> IF Changed(fl, "cleared") THEN fl.val["cleared"] ELSE ex.Cleared,
     Approved |-> IF Changed(fl, "approved") THEN fl.val["approved"] ELSE ex.Approved,
     FlagColor |-> IF Changed(fl, "flag") THEN fl.val["flag"] ELSE ex.FlagColor,
     ImportID |-> ""]

\* Client.UpdateTransaction up to httpClient.Do.
UpdateTransactionSend(g, budget, id, txn) ==
    doRequestSend(g.apiClient, Ops["UpdateTransaction"].method,
                  Path("UpdateTransaction", budget, id, ""),
                  RequestBody("transaction", Marshal(SaveTransactionTags, txn)))

(***************************************************************************)
(* cmd: the list, create and update commands with flags of their own.      *)
(***************************************************************************)
\* fmt.Errorf of a RunE's own check, and cobra's "unknown flag: --name".
FlagErr(detail) == MkErr("usage", "", detail, 0, EmptyBody)

transactionsListRunE(g, fl) ==
    LET b == getBudgetID(g)
        v == fl.val
    IN IF b.err.kind # "none" THEN Returns(b.err)
       ELSE IF v["account"] # ""
       THEN Calls(g, "GetTransactionsByAccount",
                  Path("GetTransactionsByAccount", b.id, v["account"], v["since"]),
                  NoRequestBody, FALSE)
       ELSE IF v["category"] # ""
       THEN Calls(g, "GetTransactionsByCategory",
                  Path("GetTransactionsByCategory", b.id, v["category"], v["since"]),
                  NoRequestBody, FALSE)
       ELSE IF v["payee"] # ""
       THEN Calls(g, "GetTransactionsByPayee",
                  Path("GetTransactionsByPayee", b.id, v["payee"], v["since"]),
                  NoRequestBody, FALSE)
       ELSE Calls(g, "GetTransactions",
                  Path("GetTransactions", b.id, v["since"], v["type"]),
                  NoRequestBody, FALSE)

transactionsCreateRunE(g, fl, now) ==
    LET b == getBudgetID(g)
        v == fl.val
        txn == [AccountID |-> v["account"],
                Date |-> IF v["date"] = "" THEN Format(LayoutDate, now) ELSE v["date"],
                Amount |-> AmountToMilliunits(ParseFloat(v["amount"].n, v["amount"].d)),
                PayeeID |-> v["payee-id"], PayeeName |-> v["payee-name"],
                CategoryID |-> v["category"], Memo |-> v["memo"],
                Cleared |-> v["cleared"], Approved |-> v["approved"],
                FlagColor |-> v["flag"], ImportID |-> ""]
    IN IF b.err.kind # "none" THEN Returns(b.err)
       ELSE IF v["account"] = "" THEN Returns(FlagErr("account ID is required (--account)"))
       ELSE Calls(g, "CreateTransaction", Path("CreateTransaction", b.id, "", ""),
                  RequestBody("transaction", Marshal(SaveTransactionTags, txn)),
                  v["date"] = "")

SaveScheduledTransactionTags == <<
    Tag("AccountID", "account_id", "string", FALSE),
    Tag("Date", "date", "string", FALSE),
    Tag("Frequency", "frequency", "string", FALSE),
    Tag("Amount", "amount", "int", FALSE),
    Tag("PayeeID", "payee_id", "string", TRUE),
    Tag("PayeeName", "payee_name", "string", TRUE),
    Tag("CategoryID", "category_id", "string", TRUE),
    Tag("Memo", "memo", "string", TRUE),
    Tag("FlagColor", "flag_color", "string", TRUE)>>

scheduledCreateRunE(g, fl, now) ==
    LET b == getBudgetID(g)
        v == fl.val
        st == [AccountID |-> v["account"],
               Date |-> IF v["date"] = "" THEN Format(LayoutDate, now) ELSE v["date"],
               Frequency |-> v["frequency"],
               Amount |-> AmountToMilliunits(ParseFloat(v["amount"].n, v["amount"].d)),
               PayeeID |-> v["payee-id"], PayeeName |-> v["payee-name"],
               CategoryID |-> v["category"], Memo |-> v["memo"],
               FlagColor |-> v["flag"]]
    IN IF b.err.kind # "none" THEN Returns(b.err)
       ELSE IF v["account"] = "" THEN Returns(FlagErr("account ID is required (--account)"))
       ELSE IF v["frequency"] = ""
       THEN Returns(FlagErr("frequency is required (--frequency)"))
       ELSE Calls(g, "CreateScheduledTransaction",
                  Path("CreateScheduledTransaction", b.id, "", ""),
                  RequestBody("scheduled_transaction",
                              Marshal(SaveScheduledTransactionTags, st)),
                  v["date"] = "")

scheduledUpdateRunE(g, a) ==
    LET b == getBudgetID(g)
    IN IF b.err.kind # "none" THEN Returns(b.err)
       ELSE Calls(g, "GetScheduledTransaction",
                  Path("GetScheduledTransaction", b.id, a[1], ""), NoRequestBody, FALSE)

\* The client.SaveScheduledTransaction that scheduled update builds from the
\* fetched scheduled transaction and the flags.
MergeScheduledTransaction(ex, fl) ==
    [AccountID |-> IF Changed(fl, "account") THEN fl.val["account"] ELSE ex.AccountID,
     Date |-> IF Changed(fl, "date") THEN fl.val["date"] ELSE ex.DateFirst,
     Frequency |-> IF Changed(fl, "frequency") THEN fl.val["frequency"] ELSE ex.Frequency,
     Amount |-> IF Changed(fl, "amount")
                THEN AmountToMilliunits(ParseFloat(fl.val["amount"].n, fl.val["amount"].d))
                ELSE ex.Amount,
     PayeeID |-> IF Changed(fl, "payee-id") THEN fl.val["payee-id"] ELSE ex.PayeeID,
     PayeeName |-> IF Changed(fl, "payee-name") THEN fl.val["payee-name"] ELSE "",
     CategoryID |-> IF Changed(fl, "category") THEN fl.val["category"] ELSE ex.CategoryID,
     Memo |-> IF Changed(fl, "memo") THEN fl.val["memo"] ELSE ex.Memo,
     FlagColor |-> IF Changed(fl, "flag") THEN fl.val["flag"] ELSE ex.FlagColor]

\* Client.UpdateScheduledTransaction up to httpClient.Do.
UpdateScheduledTransactionSend(g, budget, id, st) ==
    doRequestSend(g.apiClient, Ops["UpdateScheduledTransaction"].method,
                  Path("UpdateScheduledTransaction", budget, id, ""),
                  RequestBody("scheduled_transaction",
                              Marshal(SaveScheduledTransactionTags, st)))

payeesUpdateRunE(g, a, fl) ==
    LET b == getBudgetID(g)
    IN IF b.err.kind # "none" THEN Returns(b.err)
       ELSE IF fl.val["name"] = "" THEN Returns(FlagErr("new name is required (--name)"))
       ELSE Calls(g, "UpdatePayee", Path("UpdatePayee", b.id, a[1], ""),
                  RequestBody("payee", "name" :> fl.val["name"]), FALSE)

accountsCreateRunE(g, fl) ==
    LET b == getBudgetID(g)
        v == fl.val
    IN IF b.err.kind # "none" THEN Returns(b.err)
       ELSE IF v["name"] = "" THEN Returns(FlagErr("account name is required (--name)"))
       ELSE IF v["type"] = "" THEN Returns(FlagErr("account type is required (--type)"))
       ELSE Calls(g, "CreateAccount", Path("CreateAccount", b.id, "", ""),
                  RequestBody("account",
                      "name" :> v["name"] @@ "type" :> v["type"] @@ "balance" :>
                          AmountToMilliunits(ParseFloat(v["balance"].n, v["balance"].d))),
                  FALSE)

\* The flags init() declares on the commands above.
SchedFlagNames == {"account", "date", "frequency", "amount", "payee-id", "payee-name",
                   "category", "memo", "flag"}

DeclaredFlags(c) ==
    CASE c = Cmd("transactions", "list") -> {"since", "type", "account", "category", "payee"}
      [] c = Cmd("transactions", "create") ->
             {"account", "date", "amount", "payee-id", "payee-name", "category", "memo",
              "cleared", "approved", "flag"}
      [] c \in {Cmd("scheduled", "create"), Cmd("scheduled", "update")} -> SchedFlagNames
      [] c = Cmd("payees", "update") -> {"name"}
      [] c = Cmd("accounts", "create") -> {"name", "type", "balance"}

(***************************************************************************)
(* The environment: the command lines tried and the transport's answers.   *)
(***************************************************************************)
NoFlags == [changed |-> {}, val |-> EmptyObject]

Decimal(n, d) == [n |-> n, d |-> d]

FormatFlags == {""}

BudgetFlags == {"", "b1"}

\* categories update: --month and --budgeted as pflag leaves them (defaults
\* "current" and 0 when not given).
CategoryFlagSets ==
    {[changed |-> ch, val |-> ("month" :> (IF "month" \in ch THEN m ELSE "current")
                               @@ "budgeted" :> (IF "budgeted" \in ch THEN b ELSE Decimal(0, 1)))] :
        ch \in SUBSET {"month", "budgeted"},
        m \in {"", "current", "2026-03-15"},
        b \in {Decimal(1250, 100)}}

TxnFlagNames == {"account", "date", "amount", "payee-id", "payee-name", "category",
                 "memo", "cleared", "approved", "flag"}

TxnFlagDefaults ==
    "account" :> "" @@ "date" :> "" @@ "amount" :> Decimal(0, 1) @@ "payee-id" :> ""
    @@ "payee-name" :> "" @@ "category" :> "" @@ "memo" :> "" @@ "cleared" :> ""
    @@ "approved" :> FALSE @@ "flag" :> ""

TxnFlagGiven ==
    {"account" :> "a2" @@ "date" :> "2026-02-03" @@ "amount" :> Decimal(-200, 100)
     @@ "payee-id" :> "p2" @@ "payee-name" :> "Shop" @@ "category" :> c @@ "memo" :> m
     @@ "cleared" :> cl @@ "approved" :> ap @@ "flag" :> f :
        c \in {"", "c2"}, m \in {"", "new"}, cl \in {"", "reconciled"},
        ap \in BOOLEAN, f \in {"", "blue"}}

TxnFlagSets ==
    {[changed |-> ch,
      val |-> [n \in TxnFlagNames |-> IF n \in ch THEN v[n] ELSE TxnFlagDefaults[n]]] :
        ch \in {x \in SUBSET TxnFlagNames : Cardinality(x) <= MaxChanged},
        v \in TxnFlagGiven}

\* transactions list: its five filters, given or not.
TxnListFlagSets ==
    {[changed |-> {n \in DOMAIN v : v[n] # ""}, val |-> v] :
        v \in [since : {"", "2026-01-01"}, type : {"", "unapproved", "bogus"},
               account : {"", "a1"}, category : {"", "c1"}, payee : {"", "p1"}]}

\* transactions create: --account, --date and --amount, given or not.
TxnCreateFlagSets ==
    {[changed |-> ch,
      val |-> [n \in TxnFlagNames |->
                  IF n \in ch
                  THEN ("account" :> "a2" @@ "date" :> "2026-02-03"
                        @@ "amount" :> Decimal(-200, 100))[n]
                  ELSE TxnFlagDefaults[n]]] :
        ch \in SUBSET {"account", "date", "amount"}}

SchedFlagDefaults == [n \in SchedFlagNames |-> IF n = "amount" THEN Decimal(0, 1) ELSE ""]

SchedFlagGiven(memo, flag) ==
    "account" :> "a2" @@ "date" :> "2026-02-03" @@ "frequency" :> "weekly"
    @@ "amount" :> Decimal(-100, 1) @@ "payee-id" :> "p2" @@ "payee-name" :> "Shop"
    @@ "category" :> "c2" @@ "memo" :> memo @@ "flag" :> flag
    @@ "date-first" :> "2024-01-01"

\* scheduled create: the flags its help calls required, given or not, and
\* the README's --date-first.
SchedCreateFlagSets ==
    {[changed |-> ch,
      val |-> [n \in SchedFlagNames \cup ch |->
                  IF n \in ch THEN SchedFlagGiven("", "")[n] ELSE SchedFlagDefaults[n]]] :
        ch \in SUBSET {"account", "date", "frequency", "amount", "date-first"}}

SchedUpdateFlagSets ==
    {[changed |-> ch,
      val |-> [n \in SchedFlagNames |->
                  IF n \in ch THEN SchedFlagGiven(m, f)[n] ELSE SchedFlagDefaults[n]]] :
        ch \in {x \in SUBSET SchedFlagNames : Cardinality(x) <= MaxChanged},
        m \in {"", "new"}, f \in {"", "blue"}}

PayeeFlagSets ==
    {[changed |-> IF n = "" THEN {} ELSE {"name"}, val |-> [name |-> n]] :
        n \in {"", "Market"}}

AccountFlagSets ==
    {[changed |-> {k \in {"name", "type"} : v[k] # ""}, val |-> v] :
        v \in [name : {"", "Cash"}, type : {"", "cash"}, balance : {Decimal(10, 1)}]}

Statuses == {101, 200, 304, 400, 401}

SampleT1 ==
    "id" :> "t1" @@ "date" :> "2026-01-02" @@ "amount" :> -1000 @@ "memo" :> "old"
    @@ "cleared" :> "cleared" @@ "approved" :> TRUE @@ "flag_color" :> "red"
    @@ "account_id" :> "a1" @@ "payee_id" :> "p1" @@ "payee_name" :> "Old Shop"
    @@ "category_id" :> "c1" @@ "unknown_key" :> "x"

SampleT2 ==
    "id" :> "t1" @@ "date" :> "2026-01-09" @@ "amount" :> 500 @@ "account_id" :> "a1"

SampleB1 == "id" :> "b1" @@ "name" :> "Test"

SampleB2 == "id" :> "b2" @@ "name" :> "Home" @@ "unknown_key" :> "x"

SampleX1 == "id" :> "x1" @@ "name" :> "First" @@ "month" :> "2026-01-01" @@ "deleted" :> FALSE

SampleX2 == "id" :> "x2" @@ "deleted" :> TRUE

SampleS1 ==
    "id" :> "s1" @@ "date_first" :> "2026-01-05" @@ "date_next" :> "2026-02-05"
    @@ "frequency" :> "monthly" @@ "amount" :> -2000 @@ "memo" :> "rent"
    @@ "flag_color" :> "red" @@ "account_id" :> "a1" @@ "payee_id" :> "p1"
    @@ "category_id" :> "c1"

SampleObjects(type) ==
    CASE type = "Transaction" -> <<SampleT1, SampleT2>>
      [] type = "ScheduledTransaction" -> <<SampleS1, SampleX2>>
      [] type = "Budget" -> <<SampleB1, SampleB2>>
      [] OTHER -> <<SampleX1, SampleX2>>

ErrorMember(kind, id, name, detail) ==
    [kind |-> kind, id |-> id, name |-> name, detail |-> detail]

ValueMember(kind, items, obj) == [kind |-> kind, items |-> items, obj |-> obj]

DataMember(kind, key, val) == [kind |-> kind, key |-> key, val |-> val]

\* The values a well-typed service puts under the operation's key.
GoodValues(op) ==
    LET so == SampleObjects(Ops[op].type)
    IN IF Ops[op].list
       THEN {ValueMember("array", <<so[1]>>, EmptyObject),
             ValueMember("array", <<so[1], so[2]>>, EmptyObject)}
       ELSE IF Ops[op].type = "Transaction"
       THEN {ValueMember("object", <<>>, so[1]), ValueMember("object", <<>>, so[2])}
       ELSE {ValueMember("object", <<>>, so[1])}

Bodies(op) ==
    {[wf |-> FALSE, error |-> NoErrorMember, data |-> NoDataMember],
     EmptyBody,
     [EmptyBody EXCEPT !.error = ErrorMember("object", "401", "unauthorized", "bad token")],
     [EmptyBody EXCEPT !.error = ErrorMember("null", "", "", "")],
     [EmptyBody EXCEPT !.error = ErrorMember("badtype", "", "", "")],
     [EmptyBody EXCEPT !.data = DataMember("null", "", NoValueMember)],
     [EmptyBody EXCEPT !.data = DataMember("badtype", "", NoValueMember)],
     [EmptyBody EXCEPT !.data = DataMember("object", "", NoValueMember)],
     [EmptyBody EXCEPT !.data = DataMember("object", Ops[op].key,
                                           ValueMember("null", <<>>, EmptyObject))],
     [EmptyBody EXCEPT !.data = DataMember("object", Ops[op].key,
                                           ValueMember("badtype", <<>>, EmptyObject))]}
    \cup {[EmptyBody EXCEPT !.data = DataMember("object", Ops[op].key, v)] :
              v \in GoodValues(op)}
    \cup {[EmptyBody EXCEPT !.data = DataMember("object", "other", v)] :
              v \in {CHOOSE g \in GoodValues(op) : TRUE}}

Answers(op) ==
    {[got |-> TRUE, neterr |-> TRUE, status |-> 0, body |-> EmptyBody]}
    \cup {[got |-> TRUE, neterr |-> FALSE, status |-> st, body |-> b] :
              st \in Statuses, b \in Bodies(op)}

(***************************************************************************)
(* The invocation.                                                         *)
(***************************************************************************)
\* exit: the process's exit status, -1 while it runs.
NoOut == [err |-> NoErr, value |-> NoValue, printed |-> FALSE, format |-> "", exit |-> -1]

\* Variant: Execute drops the error and main returns.
FailedExitsZero(err) ==
    [err |-> err, value |-> NoValue, printed |-> FALSE, format |-> "", exit |-> 0]

\* Execute: rootCmd.Execute() returned err, os.Exit(1).
Failed(err) ==
    [err |-> err, value |-> NoValue, printed |-> FALSE, format |-> "", exit |-> 1]

\* RunE returned nil after printing by itself; main returns.
Succeeded == [NoOut EXCEPT !.exit = 0]

\* output.New(getOutputFormat()).Print(value)
Printed(g, value) ==
    [err |-> NoErr, value |-> value, printed |-> TRUE, format |-> getOutputFormat(g),
     exit |-> 0]

Globals == [cfg |-> cfg, outputFormat |-> outputFormat, budgetID |-> budgetID,
            apiClient |-> apiClient]

Init ==
    /\ file \in {WrittenFile(t, b, "") : t \in {"", "tok"}, b \in {"", "bdef"}}
                \cup {WrittenFile("tok2", "", "")}
    /\ env = NoEnv
    /\ persistent = PersistentFlags("", "")
    /\ cfg = NilCfg
    /\ outputFormat = ""
    /\ budgetID = ""
    /\ apiClient = NilClient
    /\ pc = "ready"
    /\ cmd = NoCmd
    /\ args = <<>>
    /\ flags = NoFlags
    /\ clock = ZeroTime
    /\ reqs = <<>>
    /\ resp = NoAnswer
    /\ call = ""
    /\ existing = EmptyObject
    /\ out = NoOut
    /\ cv = CvIdle
    /\ rd = RdIdle

\* cobra runs PersistentPreRunE and, when it returns nil, RunE, here up to the
\* first request; run is RunE's outcome on the globals pre left.
Begin(c, pre, a, fl, now, run) ==
    /\ pc = "ready"
    /\ cmd' = c
    /\ args' = a
    /\ flags' = fl
    /\ persistent' = pre.persistent
    /\ cfg' = pre.cfg
    /\ outputFormat' = pre.outputFormat
    /\ budgetID' = pre.budgetID
    /\ apiClient' = pre.apiClient
    /\ IF pre.err.kind # "none"
       THEN /\ pc' = "done"
            /\ out' = Failed(pre.err)
            /\ UNCHANGED <<reqs, clock, call>>
       ELSE \E r \in {run} :
                /\ clock' = IF r.readClock THEN now ELSE clock
                /\ IF r.err.kind # "none"
                   THEN /\ pc' = "done"
                        /\ out' = Failed(r.err)
                        /\ UNCHANGED <<reqs, call>>
                   ELSE /\ pc' = "wait"
                        /\ reqs' = Append(reqs, r.req)
                        /\ call' = r.op
                        /\ out' = out
    /\ UNCHANGED <<file, env, resp, existing, cv, rd>>

RunSimple ==
    /\ pc = "ready"
    /\ \E c \in SimpleCmds, ff \in FormatFlags, bf \in BudgetFlags :
           \E pre \in {PersistentPreRunE(c, ff, bf)},
              a \in {IF c.name = "list" THEN <<>> ELSE <<"x1">>} :
               Begin(c, pre, a, NoFlags, ZeroTime, simpleRunE(c, pre, a))

RunUser ==
    /\ pc = "ready"
    /\ \E ff \in FormatFlags, bf \in BudgetFlags :
           \E pre \in {PersistentPreRunE(Cmd("ynabctl", "user"), ff, bf)} :
               Begin(Cmd("ynabctl", "user"), pre, <<>>, NoFlags, ZeroTime, userRunE(pre))

RunBudgets ==
    /\ pc = "ready"
    /\ \E ff \in FormatFlags, bf \in BudgetFlags :
           \/ \E pre \in {PersistentPreRunE(Cmd("budgets", "list"), ff, bf)} :
                  Begin(Cmd("budgets", "list"), pre, <<>>, NoFlags, ZeroTime,
                       budgetsListRunE(pre))
           \/ \E a \in {<<>>, <<"b2">>} :
                  \E pre \in {PersistentPreRunE(Cmd("budgets", "get"), ff, bf)} :
                      Begin(Cmd("budgets", "get"), pre, a, NoFlags, ZeroTime,
                           budgetsRunE("GetBudget", pre, a))
           \/ \E a \in {<<>>, <<"b2">>} :
                  \E pre \in {PersistentPreRunE(Cmd("budgets", "settings"), ff, bf)} :
                      Begin(Cmd("budgets", "settings"), pre, a, NoFlags, ZeroTime,
                           budgetsRunE("GetBudgetSettings", pre, a))

RunMonthsGet ==
    /\ pc = "ready"
    /\ \E ff \in FormatFlags, bf \in BudgetFlags, now \in Times,
          a \in {<<>>, <<"current">>, <<"2026-03-01">>} :
           \E pre \in {PersistentPreRunE(Cmd("months", "get"), ff, bf)} :
               Begin(Cmd("months", "get"), pre, a, NoFlags, now,
                    monthsGetRunE(pre, a, now))

RunCategoriesUpdate ==
    /\ pc = "ready"
    /\ \E ff \in FormatFlags, bf \in BudgetFlags, now \in Times, fl \in CategoryFlagSets :
           \E pre \in {PersistentPreRunE(Cmd("categories", "update"), ff, bf)} :
               Begin(Cmd("categories", "update"), pre, <<"x1">>, fl, now,
                    categoriesUpdateRunE(pre, <<"x1">>, fl, now))

RunTransactionsUpdate ==
    /\ pc = "ready"
    /\ \E ff \in FormatFlags, bf \in BudgetFlags, fl \in TxnFlagSets :
           \E pre \in {PersistentPreRunE(Cmd("transactions", "update"), ff, bf)} :
               Begin(Cmd("transactions", "update"), pre, <<"t1">>, fl, ZeroTime,
                    transactionsUpdateRunE(pre, <<"t1">>))

\* cobra's ParseFlags meets a flag the command does not declare: Execute
\* returns "unknown flag", neither PersistentPreRunE nor RunE runs.
Rejected(c, a, fl) ==
    /\ pc = "ready"
    /\ cmd' = c
    /\ args' = a
    /\ flags' = fl
    /\ out' = Failed(FlagErr("unknown flag"))
    /\ pc' = "done"
    /\ UNCHANGED <<file, env, persistent, cfg, outputFormat, budgetID, apiClient, clock,
                   reqs, resp, call, existing, cv, rd>>

RunTransactionsList ==
    /\ pc = "ready"
    /\ \E ff \in FormatFlags, bf \in BudgetFlags, fl \in TxnListFlagSets :
           \E pre \in {PersistentPreRunE(Cmd("transactions", "list"), ff, bf)} :
               Begin(Cmd("transactions", "list"), pre, <<>>, fl, ZeroTime,
                     transactionsListRunE(pre, fl))

RunTransactionsCreate ==
    /\ pc = "ready"
    /\ \E ff \in FormatFlags, bf \in BudgetFlags, fl \in TxnCreateFlagSets,
          now \in {t \in Times : t.day = 15} :
           \E pre \in {PersistentPreRunE(Cmd("transactions", "create"), ff, bf)} :
               Begin(Cmd("transactions", "create"), pre, <<>>, fl, now,
                     transactionsCreateRunE(pre, fl, now))

RunScheduledCreate ==
    /\ pc = "ready"
    /\ \E ff \in FormatFlags, bf \in BudgetFlags, fl \in SchedCreateFlagSets,
          now \in {t \in Times : t.day = 15 /\ t.month = 11} :
           IF ~(fl.changed \subseteq DeclaredFlags(Cmd("scheduled", "create")))
           THEN Rejected(Cmd("scheduled", "create"), <<>>, fl)
           ELSE \E pre \in {PersistentPreRunE(Cmd("scheduled", "create"), ff, bf)} :
                    Begin(Cmd("scheduled", "create"), pre, <<>>, fl, now,
                          scheduledCreateRunE(pre, fl, now))

RunScheduledUpdate ==
    /\ pc = "ready"
    /\ \E ff \in FormatFlags, bf \in BudgetFlags, fl \in SchedUpdateFlagSets :
           \E pre \in {PersistentPreRunE(Cmd("scheduled", "update"), ff, bf)} :
               Begin(Cmd("scheduled", "update"), pre, <<"s1">>, fl, ZeroTime,
                     scheduledUpdateRunE(pre, <<"s1">>))

RunPayeesUpdate ==
    /\ pc = "ready"
    /\ \E ff \in FormatFlags, bf \in BudgetFlags, fl \in PayeeFlagSets :
           \E pre \in {PersistentPreRunE(Cmd("payees", "update"), ff, bf)} :
               Begin(Cmd("payees", "update"), pre, <<"p1">>, fl, ZeroTime,
                     payeesUpdateRunE(pre, <<"p1">>, fl))

RunAccountsCreate ==
    /\ pc = "ready"
    /\ \E ff \in FormatFlags, bf \in BudgetFlags, fl \in AccountFlagSets :
           \E pre \in {PersistentPreRunE(Cmd("accounts", "create"), ff, bf)} :
               Begin(Cmd("accounts", "create"), pre, <<>>, fl, ZeroTime,
                     accountsCreateRunE(pre, fl))

\* The read of an update command is in flight.
ReadsFirst ==
    \/ cmd = Cmd("transactions", "update") /\ call = "GetTransaction"
    \/ cmd = Cmd("scheduled", "update") /\ call = "GetScheduledTransaction"

\* scheduled update after GetScheduledTransaction returned the existing
\* scheduled transaction: merge, and send the PUT.
ScheduledUpdateContinues ==
    /\ pc = "wait"
    /\ cmd = Cmd("scheduled", "update")
    /\ call = "GetScheduledTransaction"
    /\ \E ans \in Answers(call) :
           \E r \in {ClientReturn(call, ans)} :
               /\ r.err.kind = "none"
               /\ existing' = r.value.one
               /\ call' = "UpdateScheduledTransaction"
               /\ \E st \in {MergeScheduledTransaction(r.value.one, flags)} :
                      reqs' = Append(reqs, UpdateScheduledTransactionSend(
                                  Globals, getBudgetID(Globals).id, args[1], st))
    /\ resp' = NoAnswer
    /\ UNCHANGED <<file, env, persistent, cfg, outputFormat, budgetID, apiClient, pc, cmd,
                   args, flags, clock, out, cv, rd>>

\* transactions update after GetTransaction returned the existing transaction:
\* merge, and send the PUT.
TransactionsUpdateContinues ==
    /\ pc = "wait"
    /\ cmd = Cmd("transactions", "update")
    /\ call = "GetTransaction"
    /\ \E ans \in Answers(call) :
           \E r \in {ClientReturn(call, ans)} :
               /\ r.err.kind = "none"
               /\ existing' = r.value.one
               /\ call' = "UpdateTransaction"
               /\ \E txn \in {MergeTransaction(r.value.one, flags)} :
                      reqs' = Append(reqs, UpdateTransactionSend(
                                  Globals, getBudgetID(Globals).id, args[1], txn))
    /\ resp' = NoAnswer
    /\ UNCHANGED <<file, env, persistent, cfg, outputFormat, budgetID, apiClient, pc, cmd, args, flags,
                   clock, out, cv, rd>>

\* Variant: a request that failed is sent once more.
TransportAnswersRetrying ==
    /\ pc = "wait"
    /\ \E ans \in Answers(call) :
           \E r \in {ClientReturn(call, ans)} :
               /\ r.err.kind = "none" => ~ReadsFirst
               /\ resp' = ans
               /\ IF r.err.kind # "none" /\ Len(reqs) < 3
                  THEN /\ reqs' = Append(reqs, reqs[Len(reqs)])
                       /\ pc' = "wait"
                       /\ out' = out
                  ELSE /\ reqs' = reqs
                       /\ pc' = "done"
                       /\ out' = IF r.err.kind # "none" THEN Failed(r.err)
                                 ELSE Printed(Globals, r.value)
    /\ UNCHANGED <<file, env, persistent, cfg, outputFormat, budgetID, apiClient, cmd, args,
                   flags, clock, call, existing, cv, rd>>

\* The transport answers the request in flight and the command returns: with the
\* operation's error, or after printing its value.
TransportAnswers ==
    /\ pc = "wait"
    /\ \E ans \in Answers(call) :
           \E r \in {ClientReturn(call, ans)} :
               /\ r.err.kind = "none" => ~ReadsFirst
               /\ resp' = ans
               /\ out' = IF r.err.kind # "none" THEN Failed(r.err)
                         ELSE Printed(Globals, r.value)
    /\ pc' = "done"
    /\ UNCHANGED <<file, env, persistent, cfg, outputFormat, budgetID, apiClient, cmd, args, flags,
                   clock, reqs, call, existing, cv, rd>>

Next ==
    \/ RunSimple
    \/ RunUser
    \/ RunBudgets
    \/ RunMonthsGet
    \/ RunCategoriesUpdate
    \/ RunTransactionsUpdate
    \/ TransactionsUpdateContinues
    \/ RunTransactionsList
    \/ RunTransactionsCreate
    \/ RunScheduledCreate
    \/ RunScheduledUpdate
    \/ ScheduledUpdateContinues
    \/ RunPayeesUpdate
    \/ RunAccountsCreate
    \/ TransportAnswers

Spec == Init /\ [][Next]_vars

(***************************************************************************)
(* SpecConv: the conversion helpers alone.                                 *)
(***************************************************************************)
InitConv ==
    /\ file = NoFile
    /\ env = NoEnv
    /\ persistent = PersistentFlags("", "")
    /\ cfg = NilCfg
    /\ outputFormat = ""
    /\ budgetID = ""
    /\ apiClient = NilClient
    /\ pc = "ready"
    /\ cmd = NoCmd
    /\ args = <<>>
    /\ flags = NoFlags
    /\ clock = ZeroTime
    /\ reqs = <<>>
    /\ resp = NoAnswer
    /\ call = ""
    /\ existing = EmptyObject
    /\ out = NoOut
    /\ cv \in {CvAmountInput(n, d) : n \in -MaxAmount..MaxAmount, d \in Denominators}
              \cup {CvMilliInput(n) : n \in -MaxAmount..MaxAmount}
    /\ rd = RdIdle

NextConv == ConvAmountToMilliunits \/ ConvMilliunitsToAmount

SpecConv == InitConv /\ [][NextConv]_vars

(***************************************************************************)
(* SpecSetup: the setup step in every environment.  The file and the       *)
(* environment variables are drawn freely, --format and --budget too; an   *)
(* API command runs up to its first request, a config command to its end.  *)
(***************************************************************************)
SetupFiles ==
    {NoFile, MalformedFile}
    \cup {WrittenFile(t, b, f) : t \in {"", "tok"}, b \in {"", "bfile"},
                                 f \in {"", "json", "table"}}

SetupEnvs == [token : {"", "etok"}, default_budget : {"", "benv"},
              format : {"", "json", "table"}]

SetupFormatFlags == {"", "json", "table"}

SetupBudgetFlags == {"", "bflag"}

SetupNow == [year |-> 2026, month |-> 11, day |-> 3]

Invocation(c, a, fl) == [c |-> c, a |-> a, fl |-> fl]

\* One invocation of every API command.
SetupInvocations ==
    {Invocation(c, IF c.name = "list" THEN <<>> ELSE <<"x1">>, NoFlags) : c \in SimpleCmds}
    \cup {Invocation(Cmd("ynabctl", "user"), <<>>, NoFlags),
          Invocation(Cmd("budgets", "list"), <<>>, NoFlags),
          Invocation(Cmd("budgets", "get"), <<>>, NoFlags),
          Invocation(Cmd("budgets", "get"), <<"b2">>, NoFlags),
          Invocation(Cmd("budgets", "settings"), <<>>, NoFlags),
          Invocation(Cmd("budgets", "settings"), <<"b2">>, NoFlags),
          Invocation(Cmd("months", "get"), <<"current">>, NoFlags),
          Invocation(Cmd("transactions", "update"), <<"t1">>,
                     [changed |-> {}, val |-> TxnFlagDefaults]),
          Invocation(Cmd("scheduled", "update"), <<"s1">>,
                     [changed |-> {}, val |-> SchedFlagDefaults])}
    \cup {Invocation(Cmd("transactions", "list"), <<>>, fl) :
              fl \in {f \in TxnListFlagSets : f.changed = {}}}
    \cup {Invocation(Cmd("transactions", "create"), <<>>, fl) :
              fl \in {f \in TxnCreateFlagSets : f.changed = {"account", "date"}}}
    \cup {Invocation(Cmd("scheduled", "create"), <<>>, fl) :
              fl \in {f \in SchedCreateFlagSets :
                         f.changed = {"account", "date", "frequency"}}}
    \cup {Invocation(Cmd("payees", "update"), <<"p1">>, fl) :
              fl \in {f \in PayeeFlagSets : f.changed # {}}}
    \cup {Invocation(Cmd("accounts", "create"), <<>>, fl) :
              fl \in {f \in AccountFlagSets : f.changed = {"name", "type"}}}
    \cup {Invocation(Cmd("categories", "update"), <<"x1">>, fl) :
              fl \in {f \in CategoryFlagSets : f.changed = {"budgeted"}}}

\* cobra: the RunE of the command found.
RunE(c, g, a, fl, now) ==
    CASE c \in SimpleCmds -> simpleRunE(c, g, a)
      [] c = Cmd("ynabctl", "user") -> userRunE(g)
      [] c = Cmd("budgets", "list") -> budgetsListRunE(g)
      [] c = Cmd("budgets", "get") -> budgetsRunE("GetBudget", g, a)
      [] c = Cmd("budgets", "settings") -> budgetsRunE("GetBudgetSettings", g, a)
      [] c = Cmd("months", "get") -> monthsGetRunE(g, a, now)
      [] c = Cmd("categories", "update") -> categoriesUpdateRunE(g, a, fl, now)
      [] c = Cmd("transactions", "update") -> transactionsUpdateRunE(g, a)
      [] c = Cmd("transactions", "list") -> transactionsListRunE(g, fl)
      [] c = Cmd("transactions", "create") -> transactionsCreateRunE(g, fl, now)
      [] c = Cmd("scheduled", "create") -> scheduledCreateRunE(g, fl, now)
      [] c = Cmd("scheduled", "update") -> scheduledUpdateRunE(g, a)
      [] c = Cmd("payees", "update") -> payeesUpdateRunE(g, a, fl)
      [] c = Cmd("accounts", "create") -> accountsCreateRunE(g, fl)

InitSetup ==
    /\ file \in SetupFiles
    /\ env \in SetupEnvs
    /\ persistent = PersistentFlags("", "")
    /\ cfg = NilCfg
    /\ outputFormat = ""
    /\ budgetID = ""
    /\ apiClient = NilClient
    /\ pc = "ready"
    /\ cmd = NoCmd
    /\ args = <<>>
    /\ flags = NoFlags
    /\ clock = ZeroTime
    /\ reqs = <<>>
    /\ resp = NoAnswer
    /\ call = ""
    /\ existing = EmptyObject
    /\ out = NoOut
    /\ cv = CvIdle
    /\ rd = RdIdle

RunCommand ==
    /\ pc = "ready"
    /\ \E inv \in SetupInvocations, ff \in SetupFormatFlags, bf \in SetupBudgetFlags :
           \E pre \in {PersistentPreRunE(inv.c, ff, bf)} :
               Begin(inv.c, pre, inv.a, inv.fl, SetupNow,
                     RunE(inv.c, pre, inv.a, inv.fl, SetupNow))

\* A command that sends nothing and prints by itself: cobra runs
\* PersistentPreRunE and, when it returns nil, the command's Run or RunE, which
\* returns err and leaves the file f.
Local(c, pre, a, err, f) ==
    /\ pc = "ready"
    /\ cmd' = c
    /\ args' = a
    /\ persistent' = pre.persistent
    /\ cfg' = pre.cfg
    /\ outputFormat' = pre.outputFormat
    /\ budgetID' = pre.budgetID
    /\ apiClient' = pre.apiClient
    /\ IF pre.err.kind # "none"
       THEN out' = Failed(pre.err) /\ file' = file
       ELSE /\ out' = IF err.kind # "none" THEN Failed(err) ELSE Succeeded
            /\ file' = f
    /\ pc' = "done"
    /\ UNCHANGED <<env, flags, clock, reqs, resp, call, existing, cv, rd>>

ConfigShow ==
    /\ pc = "ready"
    /\ \E ff \in SetupFormatFlags, bf \in SetupBudgetFlags :
           \E pre \in {PersistentPreRunE(Cmd("config", "show"), ff, bf)} :
               Local(Cmd("config", "show"), pre, <<>>, Load(file, env).err, file)

ConfigSetToken ==
    /\ pc = "ready"
    /\ \E v \in {"tok2"}, ff \in SetupFormatFlags, bf \in SetupBudgetFlags :
           \E pre \in {PersistentPreRunE(Cmd("config", "set-token"), ff, bf)} :
               Local(Cmd("config", "set-token"), pre, <<v>>, NoErr,
                     SetField(file, env, "Token", v))

ConfigSetDefaultBudget ==
    /\ pc = "ready"
    /\ \E v \in {"b2"}, ff \in SetupFormatFlags, bf \in SetupBudgetFlags :
           \E pre \in {PersistentPreRunE(Cmd("config", "set-default-budget"), ff, bf)} :
               Local(Cmd("config", "set-default-budget"), pre, <<v>>, NoErr,
                     SetField(file, env, "DefaultBudget", v))

\* Variant: the value is saved unchecked.
ConfigSetFormatUnchecked ==
    /\ pc = "ready"
    /\ \E v \in {"json", "table", "csv", "JSON"}, ff \in SetupFormatFlags,
          bf \in SetupBudgetFlags :
           \E pre \in {PersistentPreRunE(Cmd("config", "set-format"), ff, bf)} :
               Local(Cmd("config", "set-format"), pre, <<v>>, NoErr,
                     SetField(file, env, "Format", v))

ConfigSetFormat ==
    /\ pc = "ready"
    /\ \E v \in {"json", "table", "csv", "JSON"}, ff \in SetupFormatFlags,
          bf \in SetupBudgetFlags :
           \E pre \in {PersistentPreRunE(Cmd("config", "set-format"), ff, bf)} :
               IF v # "json" /\ v # "table"
               THEN Local(Cmd("config", "set-format"), pre, <<v>>, UsageErr, file)
               ELSE Local(Cmd("config", "set-format"), pre, <<v>>, NoErr,
                          SetField(file, env, "Format", v))

\* ai, cobra's help command and version: Run prints a text and returns.
InfoCmds == {Cmd("ynabctl", "ai"), Cmd("ynabctl", "help"), Cmd("ynabctl", "version")}

RunInfo ==
    /\ pc = "ready"
    /\ \E c \in InfoCmds, ff \in SetupFormatFlags, bf \in SetupBudgetFlags :
           \E pre \in {PersistentPreRunE(c, ff, bf)} :
               Local(c, pre, <<>>, NoErr, file)

NextSetup ==
    \/ RunCommand
    \/ RunInfo
    \/ ConfigShow
    \/ ConfigSetToken
    \/ ConfigSetDefaultBudget
    \/ ConfigSetFormat

SpecSetup == InitSetup /\ [][NextSetup]_vars

(***************************************************************************)
(* internal/output: Formatter.Print on the slices the list operations      *)
(* return.  A row is named by the index of the entry it was written for:   *)
(* <<i>> for the slice's entry i, <<i, j>> for category j of group i.      *)
(* Encoded as JSON, every entry is written.                                *)
(***************************************************************************)
printJSON(type, v) ==
    {<<i>> : i \in 1..Len(v)}
    \cup (IF type = "CategoryGroup"
          THEN UNION {{<<i, j>> : j \in 1..Len(v[i].Categories)} : i \in 1..Len(v)}
          ELSE {})

printTable(type, v) ==
    CASE type \in {"Budget", "Account"} -> {<<i>> : i \in 1..Len(v)}
      [] type = "CategoryGroup" ->
             UNION {{<<i, j>> : j \in {k \in 1..Len(v[i].Categories) :
                                         ~(v[i].Categories[k].Deleted
                                           \/ v[i].Categories[k].Hidden)}} :
                        i \in {k \in 1..Len(v) : ~(v[k].Deleted \/ v[k].Hidden)}}
      [] type \in {"Transaction", "Payee", "ScheduledTransaction", "Month"} ->
             {<<i>> : i \in {k \in 1..Len(v) : ~v[k].Deleted}}
      [] OTHER -> printJSON(type, v)

FormatterPrint(format, type, v) ==
    IF format = "table" THEN printTable(type, v) ELSE printJSON(type, v)

\* The slices: entries as the API sends them, decoded.
Slices(S0) == UNION {[1..n -> S0] : n \in 0..MaxList}

RenderedTypes == {"Budget", "Account", "CategoryGroup", "Transaction", "Payee",
                  "ScheduledTransaction", "Month"}

Flagged == {[id |-> "e", deleted |-> d, hidden |-> h] : d \in BOOLEAN, h \in BOOLEAN}

RenderInputs(type) ==
    IF type = "CategoryGroup"
    THEN {<<DecodeObj(type, [id |-> "g", deleted |-> g.deleted, hidden |-> g.hidden,
                             categories |-> cs])>> :
              g \in Flagged, cs \in Slices(Flagged)}
    ELSE {DecodeList(type, l) : l \in Slices(Flagged)}

InitRender ==
    /\ file = NoFile
    /\ env = NoEnv
    /\ persistent = PersistentFlags("", "")
    /\ cfg = NilCfg
    /\ outputFormat = ""
    /\ budgetID = ""
    /\ apiClient = NilClient
    /\ pc = "ready"
    /\ cmd = NoCmd
    /\ args = <<>>
    /\ flags = NoFlags
    /\ clock = ZeroTime
    /\ reqs = <<>>
    /\ resp = NoAnswer
    /\ call = ""
    /\ existing = EmptyObject
    /\ out = NoOut
    /\ cv = CvIdle
    /\ \E format \in {"json", "table"}, type \in RenderedTypes :
           \E v \in RenderInputs(type) :
               rd = [format |-> format, type |-> type, data |-> v, done |-> FALSE,
                     rows |-> {}]

Render ==
    /\ ~rd.done
    /\ rd' = [rd EXCEPT !.done = TRUE, !.rows = FormatterPrint(rd.format, rd.type, rd.data)]
    /\ UNCHANGED <<runVars, cv>>

NextRender == Render

SpecRender == InitRender /\ [][NextRender]_vars

(***************************************************************************)
(* Properties of Client.doRequest and of the typed operations.             *)
(***************************************************************************)
\* An operation has returned on an answer of the transport that carried a status.
Returned == pc = "done" /\ resp.got /\ ~resp.neterr

\* The body is the error envelope with a non-null error member.
IsErrorEnvelope(body) == body.wf /\ body.error.kind = "object"

\* C1: for every operation, an answer with a status of 400 or above whose body is
\* the error envelope {"error":{id,name,detail}} with a non-null error makes the
\* operation fail with an API error of exactly that name and detail, and no
\* entity is returned.
C1_ApiErrorCarriesNameAndDetail ==
    (Returned /\ resp.status >= 400 /\ IsErrorEnvelope(resp.body)) =>
        /\ out.err.kind = "api"
        /\ out.err.name = resp.body.error.name
        /\ out.err.detail = resp.body.error.detail
        /\ out.value = NoValue
        /\ ~out.printed

C1_Witness ==
    /\ Returned
    /\ call = "GetAccounts"
    /\ resp.status = 401
    /\ resp.body.error.name = "unauthorized"
    /\ resp.body.error.detail = "bad token"
    /\ out.err.kind = "api"
    /\ out.err.name = "unauthorized"
    /\ out.err.detail = "bad token"

\* What C2 asks of a failing answer: the API error when the body is the envelope,
\* otherwise the generic error with the raw body and the status; nothing returned.
FailsAsC2Says ==
    /\ IF IsErrorEnvelope(resp.body)
       THEN out.err.kind = "api" /\ out.err.name = resp.body.error.name
            /\ out.err.detail = resp.body.error.detail
       ELSE out.err.kind = "http" /\ out.err.status = resp.status
            /\ out.err.body = resp.body
    /\ out.value = NoValue
    /\ ~out.printed

\* C2 as stated: every answer whose status is not 2xx, 1xx and 3xx included,
\* makes the operation fail, with the API error or the generic error.
C2_EveryNon2xxFails ==
    (Returned /\ ~(resp.status >= 200 /\ resp.status <= 299)) => FailsAsC2Says

\* C2 as the code has it: every answer with a status of 400 or above makes the
\* operation fail, with the API error when the body is the envelope and otherwise
\* with the generic error carrying the raw body and the status; the body of an
\* answer with a status below 400 is handed to the decoder, so the operation
\* returns what decoding that body gives.
C2_StatusFrom400Fails ==
    Returned =>
        IF resp.status >= 400 THEN FailsAsC2Says
        ELSE /\ out.err.kind \in {"none", "decode"}
             /\ out.err = Unmarshal(resp.body, call).err
             /\ out.value = Unmarshal(resp.body, call).value

C2_Witness ==
    /\ Returned
    /\ resp.status = 400
    /\ ~resp.body.wf
    /\ out.err.kind = "http"
    /\ out.err.status = 400
    /\ out.err.body = resp.body

\* C3: a success status with a well-formed body whose "data" object lacks the
\* operation's key makes the operation fail with a decode error; it returns no
\* empty list and no zero-valued entity.
C3_MissingKeyIsDecodeError ==
    (Returned /\ resp.status >= 200 /\ resp.status <= 299 /\ resp.body.wf
        /\ resp.body.error.kind = "absent" /\ resp.body.data.kind = "object"
        /\ resp.body.data.key # Ops[call].key) =>
        /\ out.err.kind = "decode"
        /\ ~out.printed

\* C4: on status 200 with {"data":{"budgets":[...]}} GetBudgets returns, without
\* error, a list with one element per entry of the array, in the array's order,
\* each with the entry's id and name.
C4_GetBudgetsKeepsEntriesInOrder ==
    (Returned /\ call = "GetBudgets" /\ resp.status = 200 /\ resp.body.wf
        /\ resp.body.data.kind = "object" /\ resp.body.data.key = "budgets"
        /\ resp.body.data.val.kind = "array") =>
        LET items == resp.body.data.val.items
        IN /\ out.err = NoErr
           /\ out.value.kind = "list"
           /\ Len(out.value.list) = Len(items)
           /\ \A i \in 1..Len(items) :
                  /\ out.value.list[i].ID = items[i]["id"]
                  /\ out.value.list[i].Name = items[i]["name"]

C4_Witness ==
    /\ Returned
    /\ call = "GetBudgets"
    /\ resp.status = 200
    /\ Len(resp.body.data.val.items) = 2
    /\ out.err = NoErr
    /\ Len(out.value.list) = 2
    /\ out.value.list[1].ID = "b1"
    /\ out.value.list[1].Name = "Test"
    /\ out.value.list[2].ID = "b2"

(***************************************************************************)
(* Properties of the conversion helpers, under SpecConv.                   *)
(***************************************************************************)
\* The integer quotient x / d truncated toward zero.
TruncDiv(x, d) == IF x >= 0 THEN x \div d ELSE -((-x) \div d)

\* C5: for every amount a expressible exactly in hundredths, of either sign,
\* MilliunitsToAmount(AmountToMilliunits(a)) equals a.
C5_AmountRoundTrip ==
    (cv.kind = "amount" /\ cv.d = 100 /\ cv.step = 2) => EqF64(cv.a2, cv.a)

\* C6: for every integer m, of either sign,
\* AmountToMilliunits(MilliunitsToAmount(m)) equals m.
C6_MilliunitsRoundTrip ==
    (cv.kind = "milli" /\ cv.step = 2) => cv.m2 = cv.n

\* C7: AmountToMilliunits(a) is a times 1000 truncated toward zero, for negative
\* a as for positive: the amount n/d gives the integer part of 1000n/d.
C7_TimesThousandTruncated ==
    (cv.kind = "amount" /\ cv.step >= 1) => cv.m = TruncDiv(cv.n * 1000, cv.d)

(***************************************************************************)
(* Properties of the commands' requests.                                   *)
(***************************************************************************)
\* The PUT of transactions update has been sent.
PutSent == cmd = Cmd("transactions", "update") /\ Len(reqs) = 2

\* One field of the replace payload.  The value wanted is the flag's when the
\* flag was given and the fetched one otherwise; the payload carries it, or omits
\* the field where the fetched transaction has the wanted value already.
SendsFlagOrExisting(json, flag, given, fetched) ==
    LET sent == reqs[2].body.fields
        wanted == IF Changed(flags, flag) THEN given ELSE fetched
    IN \/ json \in DOMAIN sent /\ sent[json] = wanted
       \/ json \notin DOMAIN sent /\ fetched = wanted

\* C8: in transactions update every mutable field of the PUT's payload (account,
\* date, amount, payee id, category, memo, cleared, approved, flag colour) has
\* the value of its flag when the user gave the flag, and otherwise the value of
\* the transaction fetched just before.
C8_PutSendsFlagOrExisting ==
    PutSent =>
        /\ reqs[2].method = "PUT"
        /\ SendsFlagOrExisting("account_id", "account", flags.val["account"],
                               existing.AccountID)
        /\ SendsFlagOrExisting("date", "date", flags.val["date"], existing.Date)
        /\ SendsFlagOrExisting("amount", "amount",
                               TruncDiv(flags.val["amount"].n * 1000, flags.val["amount"].d),
                               existing.Amount)
        /\ SendsFlagOrExisting("payee_id", "payee-id", flags.val["payee-id"],
                               existing.PayeeID)
        /\ SendsFlagOrExisting("category_id", "category", flags.val["category"],
                               existing.CategoryID)
        /\ SendsFlagOrExisting("memo", "memo", flags.val["memo"], existing.Memo)
        /\ SendsFlagOrExisting("cleared", "cleared", flags.val["cleared"],
                               existing.Cleared)
        /\ SendsFlagOrExisting("approved", "approved", flags.val["approved"],
                               existing.Approved)
        /\ SendsFlagOrExisting("flag_color", "flag", flags.val["flag"],
                               existing.FlagColor)

\* The date string YYYY-MM-01 of the clock's year and month.
FirstOfMonthString(t) == ToString(t.year) \o "-" \o Pad2(t.month) \o "-01"

MonthsPath(month) ==
    baseURL \o "/budgets/" \o getBudgetID(Globals).id \o "/months/" \o month

\* C9: months get with the argument "current", or with none, sends the request
\* for the month YYYY-MM-01 of the current year and month, and no request of
\* months get is for the month "current".
C9_CurrentIsFirstOfThisMonth ==
    (cmd = Cmd("months", "get") /\ Len(reqs) > 0) =>
        /\ (args = <<>> \/ args = <<"current">>) =>
               reqs[1].url = MonthsPath(FirstOfMonthString(clock))
        /\ reqs[1].url # MonthsPath("current")

C9_Witness ==
    /\ cmd = Cmd("months", "get")
    /\ args = <<"current">>
    /\ clock = [year |-> 2026, month |-> 11, day |-> 15]
    /\ Len(reqs) = 1
    /\ reqs[1].url = "https://api.ynab.com/v1/budgets/b1/months/2026-11-01"

\* C10: categories update with --month absent, empty or "current" puts the first
\* day of today's month, YYYY-MM-01, in the request's path, whatever the month.
C10_PathMonthIsFirstOfThisMonth ==
    (cmd = Cmd("categories", "update") /\ Len(reqs) > 0
        /\ (~Changed(flags, "month") \/ flags.val["month"] \in {"", "current"})) =>
        reqs[1].url = MonthsPath(FirstOfMonthString(clock)) \o "/categories/" \o args[1]

(***************************************************************************)
(* Properties of the setup step: the budget, the render mode, the token    *)
(* and the persisted file.  They are checked in SpecSetup.                 *)
(***************************************************************************)
\* The invocation's RunE resolves the budget with getBudgetID.
NeedsBudget ==
    \/ cmd \in SimpleCmds
    \/ cmd \in {Cmd("months", "get"), Cmd("categories", "update"),
                Cmd("transactions", "update"), Cmd("transactions", "list"),
                Cmd("transactions", "create"), Cmd("scheduled", "create"),
                Cmd("scheduled", "update"), Cmd("payees", "update"),
                Cmd("accounts", "create")}
    \/ cmd \in {Cmd("budgets", "get"), Cmd("budgets", "settings")} /\ args = <<>>

\* The setup step has something to work with: a file it can read and a token.
Configured == file.state # "malformed" /\ Get(file, env, "token") # ""

WantedBudget ==
    IF persistent.budget # "" THEN persistent.budget
    ELSE Get(file, env, "default_budget")

\* What follows the budget in a path: an argument, or the month a command
\* made of the clock.
PathArgs == {"", "x1", "t1", "s1", "p1", Format(LayoutDate, FirstOfMonth(SetupNow)),
             Format(LayoutCategoryMonth, SetupNow)}

\* C11: a command that needs a budget sends its request for the --budget
\* value when one is given, else for the configured default; with neither it
\* returns the "no budget specified" error and has sent no request.
C11_BudgetIsFlagElseDefault ==
    (pc # "ready" /\ NeedsBudget /\ Configured) =>
        IF WantedBudget = ""
        THEN pc = "done" /\ out.err = UsageErr /\ reqs = <<>>
        ELSE /\ pc = "wait"
             /\ Len(reqs) = 1
             /\ \E x \in PathArgs, y \in PathArgs :
                    reqs[1].url = baseURL \o Path(call, WantedBudget, x, y)

C11_Witness ==
    /\ pc = "wait" /\ NeedsBudget
    /\ persistent.budget = "bflag"
    /\ file.default_budget = "bfile" /\ env.default_budget = "benv"
    /\ reqs[1].url = baseURL \o "/budgets/bflag/accounts"

\* The first of flag, environment variable and file value that is set.
FirstSet(flag, variable, persisted) ==
    IF flag # "" THEN flag
    ELSE IF variable # "" THEN variable
    ELSE IF file.state = "ok" THEN persisted
    ELSE ""

\* The invocation went through the setup step and the file could be read.
SetUp ==
    /\ pc # "ready" /\ file.state # "malformed"
    /\ cmd.parent # "config" /\ cmd \notin InfoCmds

\* C12: after setup the render mode is --format, else YNAB_FORMAT, else the
\* file's format, else "json"; the budget is --budget, else
\* YNAB_DEFAULT_BUDGET, else the file's default_budget.
C12_FlagThenEnvThenFile ==
    SetUp =>
        /\ getOutputFormat(Globals) =
               (IF FirstSet(persistent.format, env.format, file.format) = "" THEN "json"
                ELSE FirstSet(persistent.format, env.format, file.format))
        /\ getBudgetID(Globals).id =
               FirstSet(persistent.budget, env.default_budget, file.default_budget)

C12_Witness ==
    /\ SetUp
    /\ persistent.format = "" /\ env.format = "table" /\ file.format = "json"
    /\ persistent.budget = "" /\ env.default_budget = "benv"
    /\ file.default_budget = "bfile"
    /\ getOutputFormat(Globals) = "table"
    /\ pc = "wait"

\* C13: with no token in the file and none in YNAB_TOKEN an API command ends
\* in setup with the "token not configured" error and has sent nothing; no
\* request carries an empty bearer token.
C13_NoTokenNoRequest ==
    /\ (SetUp /\ Get(file, env, "token") = "") =>
           pc = "done" /\ out.err = ConfigErr /\ reqs = <<>> /\ ~apiClient.set
    /\ \A i \in 1..Len(reqs) : reqs[i].authorization # "Bearer "

C13_Witness ==
    /\ SetUp /\ file.state = "ok" /\ file.token = "" /\ env.token = ""
    /\ cmd = Cmd("accounts", "list") /\ persistent.budget = "bflag"
    /\ out.err = ConfigErr /\ reqs = <<>>

\* C14: a command that loads the configuration, run on a malformed config
\* file, returns an error and leaves the file as it was.
C14_MalformedFileIsReported ==
    [][(file.state = "malformed" /\ pc = "ready" /\ pc' # "ready" /\ cmd' \notin InfoCmds) =>
           (out'.err.kind # "none" /\ file' = file)]_vars

(***************************************************************************)
(* Properties of the formatter.  They are checked in SpecRender.           *)
(***************************************************************************)
\* C15: in table mode no row is written for an entry flagged deleted, and
\* in the category list none for a hidden or deleted group or category.
C15_TableSkipsDeletedAndHidden ==
    (rd.done /\ rd.format = "table" /\ rd.type # "Budget") =>
        \A row \in rd.rows :
            /\ ~rd.data[row[1]].Deleted
            /\ rd.type = "CategoryGroup" =>
                   /\ ~rd.data[row[1]].Hidden
                   /\ ~rd.data[row[1]].Categories[row[2]].Deleted
                   /\ ~rd.data[row[1]].Categories[row[2]].Hidden

(***************************************************************************)
(* Properties of an invocation as a whole.  They are checked in Spec.      *)
(***************************************************************************)
UpdateCmds == {Cmd("transactions", "update"), Cmd("scheduled", "update")}

\* C16 as stated: at most two requests; an update command that has returned
\* has sent exactly two, any other command at most one.
C16_UpdateSendsExactlyTwo ==
    /\ Len(reqs) <= 2
    /\ cmd \notin UpdateCmds => Len(reqs) <= 1
    /\ (pc = "done" /\ cmd \in UpdateCmds) => Len(reqs) = 2

\* C16, amended: at most two requests, at most one unless the command is an
\* update; a second request is the PUT that follows a GET which returned an
\* entity, never a request sent again; an update that returned without
\* error has sent exactly two.
C16_AtMostTwoNeverResent ==
    /\ Len(reqs) <= 2
    /\ cmd \notin UpdateCmds => Len(reqs) <= 1
    /\ Len(reqs) = 2 =>
           /\ reqs[1].method = "GET" /\ reqs[2].method = "PUT"
           /\ existing # EmptyObject
    /\ (pc = "done" /\ cmd \in UpdateCmds /\ out.err.kind = "none") => Len(reqs) = 2
    /\ (pc = "done" /\ resp.got /\ out.err.kind # "none" /\ cmd \notin UpdateCmds) =>
           Len(reqs) = 1

C16_Witness ==
    /\ pc = "done" /\ cmd = Cmd("scheduled", "update")
    /\ Len(reqs) = 2 /\ resp.got /\ resp.status = 401 /\ out.err.kind = "api"

\* C17: a command that returned an error has exited with a status other
\* than zero and has handed nothing to the formatter; the exit status is
\* zero exactly when the command returned no error.
C17_ErrorExitsNonZero ==
    /\ pc # "done" => out.exit = -1
    /\ pc = "done" =>
           /\ out.exit \in {0, 1}
           /\ out.exit = 0 <=> out.err.kind = "none"
           /\ out.err.kind # "none" => ~out.printed /\ out.value = NoValue

C17_Witness ==
    /\ pc = "done" /\ out.err.kind = "decode" /\ out.exit = 1 /\ ~out.printed
    /\ resp.status = 200

\* C18: scheduled create run as the README shows, with --account, --amount,
\* --frequency and --date-first, in an environment with a token and a
\* budget, sends one POST whose date is the --date-first value.
C18_ReadmeInvocationAccepted ==
    (/\ pc # "ready"
     /\ cmd = Cmd("scheduled", "create")
     /\ flags.changed = {"account", "amount", "frequency", "date-first"}
     /\ Configured /\ WantedBudget # "") =>
        /\ out.err.kind \notin {"usage", "config"}
        /\ Len(reqs) = 1
        /\ reqs[1].method = "POST"
        /\ reqs[1].body.fields["date"] = flags.val["date-first"]

\* The flags the command's help text lists as required.
RequiredFlags(c) ==
    IF c = Cmd("transactions", "create") THEN {"account", "amount"}
    ELSE {"account", "date", "frequency", "amount"}

\* C19: transactions create and scheduled create run without one of their
\* required flags return an error and send nothing.
C19_MissingRequiredFlagFails ==
    (/\ pc # "ready"
     /\ cmd \in {Cmd("transactions", "create"), Cmd("scheduled", "create")}
     /\ ~(RequiredFlags(cmd) \subseteq flags.changed)) =>
        pc = "done" /\ out.err.kind # "none" /\ reqs = <<>>

\* The values the service defines for the type filter.
AcceptedTypes == {"uncategorized", "unapproved"}

\* C20: transactions list sends no request whose query carries a type other
\* than "uncategorized" and "unapproved".
C20_OnlyAcceptedTypesAreSent ==
    (cmd = Cmd("transactions", "list") /\ flags.val["type"] \notin AcceptedTypes \cup {""}) =>
        \A i \in 1..Len(reqs) :
            reqs[i].url # baseURL \o Path("GetTransactions", WantedBudget,
                                          flags.val["since"], flags.val["type"])

\* C21: the date in the PUT of scheduled update is the first date the server
\* reported for the existing scheduled transaction, whatever flags are given.
C21_UpdateKeepsFirstDate ==
    (cmd = Cmd("scheduled", "update") /\ Len(reqs) = 2) =>
        reqs[2].body.fields["date"] = existing.DateFirst

(***************************************************************************)
(* Properties of the commands that skip setup.  Checked in SpecSetup.      *)
(***************************************************************************)
\* The invocation is of a config subcommand, or of help, version or ai.
SkipsSetup == cmd.parent = "config" \/ cmd \in InfoCmds

\* C22: the config subcommands and help, version and ai end without setup:
\* the configuration global stays unloaded, no API client is made and no
\* request is sent, whatever the token and the default budget; they fail
\* only where their own RunE does (config show on a file it cannot read,
\* config set-format on a value other than json and table).
C22_LocalCommandsSkipSetup ==
    (pc # "ready" /\ SkipsSetup) =>
        /\ pc = "done"
        /\ reqs = <<>> /\ ~apiClient.set /\ ~cfg.set
        /\ out.err.kind # "none" =>
               \/ cmd = Cmd("config", "show") /\ file.state = "malformed"
               \/ cmd = Cmd("config", "set-format") /\ args[1] \notin {"json", "table"}

C22_Witness ==
    /\ pc = "done" /\ cmd = Cmd("config", "set-format") /\ args = <<"table">>
    /\ env = NoEnv /\ file.token = "" /\ file.default_budget = ""
    /\ out.exit = 0 /\ reqs = <<>> /\ ~apiClient.set

(***************************************************************************)
(* Properties of the client's requests.  They are checked in Spec.         *)
(***************************************************************************)
\* C23: every request sent, whatever the operation and the method, has the
\* Authorization header "Bearer " followed by the token the client was made
\* with; the client's token and base address are those New gave it, before
\* and after every call, failed or not.
C23_EveryRequestBearsTheToken ==
    /\ \A i \in 1..Len(reqs) :
           reqs[i].authorization = "Bearer " \o Get(file, env, "token")
    /\ apiClient.set => apiClient = New(Get(file, env, "token"))
    /\ Len(reqs) > 0 => apiClient.set

C23_Witness ==
    /\ pc = "done" /\ Len(reqs) = 2 /\ resp.got /\ resp.status = 401
    /\ reqs[1].method = "GET" /\ reqs[1].authorization = "Bearer tok2"
    /\ reqs[2].method = "PUT" /\ reqs[2].authorization = "Bearer tok2"
    /\ apiClient = [set |-> TRUE, token |-> "tok2", baseURL |-> "https://api.ynab.com/v1"]

\* The operation that fetches the existing entity of an update command.
FetchOp == IF cmd = Cmd("transactions", "update") THEN "GetTransaction"
           ELSE "GetScheduledTransaction"

\* C24: in transactions update and scheduled update the first request is the
\* GET of the entity and a PUT is only ever the second request, for the same
\* entity, sent after the GET returned one; when the GET returned an error
\* the command has ended with that error, with the GET as its only request
\* and nothing handed to the formatter.
C24_FetchPrecedesReplace ==
    cmd \in UpdateCmds =>
        /\ Len(reqs) >= 1 => reqs[1].method = "GET" /\ ~reqs[1].body.present
        /\ \A i \in 1..Len(reqs) :
               reqs[i].method = "PUT" =>
                   /\ i = 2 /\ reqs[1].url = reqs[2].url
                   /\ call # FetchOp
                   /\ existing # EmptyObject
        /\ (pc = "done" /\ resp.got /\ call = FetchOp) =>
               /\ ClientReturn(FetchOp, resp).err.kind # "none"
               /\ Len(reqs) = 1
               /\ out = Failed(ClientReturn(FetchOp, resp).err)
               /\ ~out.printed /\ out.value = NoValue
        /\ (pc = "done" /\ Len(reqs) = 1) => call = FetchOp /\ out.err.kind # "none"

C24_Witness ==
    /\ pc = "done" /\ cmd = Cmd("transactions", "update") /\ call = "GetTransaction"
    /\ resp.got /\ resp.status = 200 /\ ~resp.body.wf
    /\ out.err.kind = "decode" /\ Len(reqs) = 1 /\ ~out.printed

(***************************************************************************)
(* Properties of the config commands.  They are checked in SpecSetup.      *)
(***************************************************************************)
Setters == {Cmd("config", "set-token"), Cmd("config", "set-default-budget"),
            Cmd("config", "set-format")}

\* The key a setter names.
NamedKey(c) ==
    CASE c.name = "set-token" -> "token"
      [] c.name = "set-default-budget" -> "default_budget"
      [] c.name = "set-format" -> "format"

\* What the file alone gives for a key, the environment left out.
FileValue(f, k) == Get(f, NoEnv, k)

\* C25: config set-token, set-default-budget and set-format leave the two
\* keys they do not name with the values the file gave them before, whatever
\* the environment variables hold and whether or not the file existed.
C25_SetterKeepsOtherKeys ==
    [][(/\ pc = "ready" /\ pc' = "done" /\ cmd' \in Setters
        /\ out'.err.kind = "none" /\ file.state # "malformed") =>
           \A k \in ConfigKeys \ {NamedKey(cmd')} :
               FileValue(file', k) = FileValue(file, k)]_vars

(***************************************************************************)
(* Properties of the update payloads on the wire.  Checked in Spec.        *)
(***************************************************************************)
\* The flags with a string value that the user may set to the empty string,
\* each with the payload's JSON key.
ClearableFlags == {<<"memo", "memo">>, <<"flag", "flag_color">>,
                   <<"category", "category_id">>, <<"cleared", "cleared">>}

\* C26: in transactions update and scheduled update a field given an empty
\* value (--memo "", --flag "", --category "", --cleared "") or the value
\* false (--approved=false) is in the JSON body of the PUT, with that value.
C26_EmptyOverrideIsSent ==
    (cmd \in UpdateCmds /\ Len(reqs) = 2) =>
        /\ \A p \in ClearableFlags :
               (Changed(flags, p[1]) /\ flags.val[p[1]] = "") =>
                   /\ p[2] \in DOMAIN reqs[2].body.fields
                   /\ reqs[2].body.fields[p[2]] = ""
        /\ (Changed(flags, "approved") /\ flags.val["approved"] = FALSE) =>
               /\ "approved" \in DOMAIN reqs[2].body.fields
               /\ reqs[2].body.fields["approved"] = FALSE

(***************************************************************************)
(* Properties of transactions list and categories update.  Checked in Spec.*)
(***************************************************************************)
TxnListOps == {"GetTransactions", "GetTransactionsByAccount",
               "GetTransactionsByCategory", "GetTransactionsByPayee"}

\* The filters in the path and the query of a listing request, by the
\* operation and its two parameters.
Carries(op, a, b) ==
    LET none == [since |-> "", type |-> "", account |-> "", category |-> "", payee |-> ""]
    IN CASE op = "GetTransactions" -> [none EXCEPT !.since = a, !.type = b]
         [] op = "GetTransactionsByAccount" -> [none EXCEPT !.account = a, !.since = b]
         [] op = "GetTransactionsByCategory" -> [none EXCEPT !.category = a, !.since = b]
         [] op = "GetTransactionsByPayee" -> [none EXCEPT !.payee = a, !.since = b]

\* The values the filters take in the command lines tried.
FilterValues == UNION {{fl.val[n] : n \in DOMAIN fl.val} : fl \in TxnListFlagSets}

\* C27: the request of transactions list carries every filter given: it is a
\* listing request whose path and query hold the value of each of --account,
\* --category, --payee, --type and --since that was supplied.
C27_EveryFilterIsSent ==
    (cmd = Cmd("transactions", "list") /\ Len(reqs) = 1) =>
        \E op \in TxnListOps, a \in FilterValues, b \in FilterValues :
            /\ reqs[1].url = baseURL \o Path(op, getBudgetID(Globals).id, a, b)
            /\ \A n \in flags.changed : Carries(op, a, b)[n] = flags.val[n]

\* C28: categories update run without --budgeted sends no PATCH that sets
\* the budgeted amount.
C28_NoBudgetedNoPatch ==
    (cmd = Cmd("categories", "update") /\ ~Changed(flags, "budgeted")) =>
        \A i \in 1..Len(reqs) :
            ~(reqs[i].method = "PATCH" /\ "budgeted" \in DOMAIN reqs[i].body.fields)

(***************************************************************************)
(* Properties of the methods.  They are checked in Spec.                   *)
(***************************************************************************)
\* The list and get operations of the client.
ReadOps == {"GetUser", "GetBudgets", "GetBudget", "GetBudgetSettings", "GetAccounts",
            "GetAccount", "GetCategories", "GetCategory", "GetPayees", "GetPayee",
            "GetTransactions", "GetTransactionsByAccount", "GetTransactionsByCategory",
            "GetTransactionsByPayee", "GetTransaction", "GetScheduledTransactions",
            "GetScheduledTransaction", "GetMonths", "GetMonth"}

\* The invocation is of a read command: user, a list, a get, budgets settings.
ReadCmd == cmd.name \in {"user", "list", "get", "settings"}

\* C29: a read command sends only GET requests, without a body, and so does
\* every list and get operation; a POST is sent only by a create command, a
\* PUT or PATCH only by an update command and a DELETE only by a delete
\* command, each by the operation of that kind.
C29_ReadsOnlyGet ==
    /\ ReadCmd => \A i \in 1..Len(reqs) : reqs[i].method = "GET"
    /\ \A i \in 1..Len(reqs) :
           /\ reqs[i].method = "GET" => ~reqs[i].body.present
           /\ reqs[i].method = "POST" => cmd.name = "create"
           /\ reqs[i].method \in {"PUT", "PATCH"} => cmd.name = "update"
           /\ reqs[i].method = "DELETE" => cmd.name = "delete"
           /\ reqs[i].method \in {"GET", "POST", "PUT", "PATCH", "DELETE"}
    /\ Len(reqs) > 0 =>
           /\ reqs[Len(reqs)].method = Ops[call].method
           /\ call \in ReadOps <=> reqs[Len(reqs)].method = "GET"
           /\ ReadCmd => call \in ReadOps

C29_Witness ==
    /\ pc = "done" /\ cmd = Cmd("transactions", "get") /\ call = "GetTransaction"
    /\ Len(reqs) = 1 /\ reqs[1].method = "GET" /\ ~reqs[1].body.present
    /\ out.printed

(***************************************************************************)
(* Properties of config set-format.  They are checked in SpecSetup.        *)
(***************************************************************************)
\* C30: config set-format with a value other than "json" and "table" returns
\* an error and leaves the file as it was, missing if it was missing; with
\* "json" or "table" it returns none and the file's format is that value.
C30_SetFormatAcceptsJsonAndTable ==
    [][(pc = "ready" /\ pc' = "done" /\ cmd' = Cmd("config", "set-format")) =>
           IF args'[1] \in {"json", "table"}
           THEN /\ out'.err.kind = "none"
                /\ file'.state = "ok" /\ "format" \in file'.keys
                /\ file'.format = args'[1]
           ELSE out'.err.kind # "none" /\ file' = file]_vars

C30_Witness ==
    /\ pc = "done" /\ cmd = Cmd("config", "set-format") /\ args = <<"JSON">>
    /\ out.err = UsageErr /\ out.exit = 1
    /\ file = WrittenFile("tok", "bfile", "table")
====
